---------------------------- MODULE Spec2Model ----------------------------
(***************************************************************************)
(* A model of the agent execution core of aeon-core: one turn of           *)
(* Agent.process (discovery, reasoning, extraction, trust gate, human      *)
(* review gate, reasoning-quality check, axiom validation, execution,      *)
(* recording), the axiom registry (ExecutiveRegistry) and the autonomous   *)
(* driver (AgentLoop.run).                                                 *)
(***************************************************************************)
EXTENDS Integers, Sequences, FiniteSets, TLC

(***************************************************************************)
(* Bounds of the model.                                                    *)
(***************************************************************************)
MaxX == 3          \* argument values x range over 0..MaxX
MaxCalls == 1      \* direct calls of process() in one behaviour
MaxTurns == 2      \* turns started by the autonomous driver in one behaviour
MaxSteps == 2      \* largest max_steps passed to run()
MaxRegs == 2       \* calls of ExecutiveRegistry.register in one behaviour
MaxText == 6       \* length of the texts given to the brace-balance scanner

(***************************************************************************)
(* Strings are sequences of one-character strings, so that lower() and     *)
(* the substring test `in` are computed, not assumed.                      *)
(***************************************************************************)
LowerChar(c) ==
    CASE c = "D" -> "d" [] c = "E" -> "e" [] c = "L" -> "l" [] c = "T" -> "t"
      [] c = "R" -> "r" [] c = "M" -> "m" [] c = "O" -> "o" [] c = "V" -> "v"
      [] c = "S" -> "s" [] OTHER -> c

Lower(s) == [i \in 1..Len(s) |-> LowerChar(s[i])]

Contains(s, sub) ==
    \E i \in 1..(Len(s) - Len(sub) + 1) : SubSeq(s, i, i + Len(sub) - 1) = sub

sDelete == <<"d", "e", "l", "e", "t", "e">>
sRemove == <<"r", "e", "m", "o", "v", "e">>

\* The command strings a model may put in the arguments of a call.
cmdLs == <<"l", "s">>
cmdRm == <<"r", "m", " ", "-", "r", "f">>
cmdDelete == <<"D", "e", "l", "e", "t", "e", " ", "x">>
Cmds == {cmdLs, cmdRm, cmdDelete}

Digit(n) == <<CASE n = 0 -> "0" [] n = 1 -> "1" [] n = 2 -> "2" [] n = 3 -> "3"
                [] n = 4 -> "4" [] OTHER -> "9">>

\* Argument mappings: {"x": <number>, "command": <string>}.
Args == [x : 0..MaxX, command : Cmds]

\* str(args) of a Python dict: keys and values in insertion order.
StrArgs(a) ==
    <<"{", "'", "x", "'", ":", " ">> \o Digit(a.x)
      \o <<",", " ", "'", "c", "o", "m", "m", "a", "n", "d", "'", ":", " ", "'">>
      \o a.command \o <<"'", "}">>

(***************************************************************************)
(* Trust Gate: SecurityContext.can_execute.                                *)
(***************************************************************************)
TrustLevels == {"isolated", "standard", "full"}
high_risk == {"shell_command", "file_system", "web_browser"}
medium_risk == {"read_file", "search_web"}

\* A gate that treats every level above Isolated as Standard.
can_execute_NoFull(lvl, tool_name) ==
    IF lvl = "isolated"
    THEN tool_name \notin high_risk /\ tool_name \notin medium_risk
    ELSE tool_name \notin high_risk

can_execute(lvl, tool_name) ==
    IF lvl = "isolated" THEN tool_name \notin high_risk /\ tool_name \notin medium_risk
    ELSE IF lvl = "standard" THEN tool_name \notin high_risk
    ELSE TRUE

(***************************************************************************)
(* Human-Review Gate: HITLAxiom.requires_review, with the default critical *)
(* tools of HITLAxiom.__init__.                                            *)
(***************************************************************************)
critical_tools == {"shell_tool", "file_tool", "macos_tool"}

\* HITLAxiom.__init__: critical_tools or [defaults].
HITLAxiom_init(configured) == IF configured = {} THEN critical_tools ELSE configured

\* A gate that looks at the tool name only.
ReviewText_NameOnly(crit, tool_name, text) == tool_name \in crit

\* requires_review on the text str(args), for an axiom with critical set crit.
ReviewText(crit, tool_name, text) ==
    IF tool_name \in crit THEN TRUE
    ELSE IF Contains(Lower(text), sDelete) \/ Contains(Lower(text), sRemove)
         THEN TRUE
    ELSE FALSE

requires_review(tool_name, a) == ReviewText(critical_tools, tool_name, StrArgs(a))

(***************************************************************************)
(* ReasoningAxiom.validate_reasoning with the default high-stakes tools.   *)
(* A thought is represented by its length.                                 *)
(***************************************************************************)
high_stakes_tools == {"shell", "file_tool"}
MinThought == 5

\* An axiom that only rejects an empty thought.
validate_reasoning_NonEmpty(tool_name, thoughtLen) ==
    IF tool_name \notin high_stakes_tools THEN TRUE
    ELSE thoughtLen # 0

validate_reasoning(tool_name, thoughtLen) ==
    IF tool_name \notin high_stakes_tools THEN TRUE
    ELSE IF thoughtLen = 0 \/ thoughtLen < MinThought THEN FALSE
    ELSE TRUE


(***************************************************************************)
(* Axiom Registry: ExecutiveRegistry.                                      *)
(* An axiom is [name, handler, on_violation]; the registry is the dict     *)
(* _axioms in insertion order.  Handlers are the functions users register: *)
(*   set_x_2      returns a new mapping with x = 2           (override)    *)
(*   block_x_gt_1 returns x <= 1                             (pass/block)  *)
(*   clamp_x      sets x to 2 in the mapping it is given when x > 2 and    *)
(*                returns that same mapping, else returns True             *)
(*                (the shape of enforce_thermal_limits)                    *)
(*   no_return    returns None                                             *)
(***************************************************************************)
FuncNames == {"f", "g"}
Handlers == {"set_x_2", "block_x_gt_1", "clamp_x", "no_return"}
Policies == {"BLOCK", "OVERRIDE", "LIMIT"}
AxiomRecs == [name : FuncNames, handler : Handlers, on_violation : Policies]

\* Axiom.execute: what the handler returns for payload p.  ret is the kind of
\* the returned value, val the mapping returned (when ret = "dict"), same
\* whether the returned mapping is the object it was given, and after the
\* content of the object it was given once the handler has run.
Axiom_execute(ax, p) ==
    CASE ax.handler = "set_x_2" ->
            [ret |-> "dict", val |-> [p EXCEPT !.x = 2], same |-> FALSE, after |-> p]
      [] ax.handler = "block_x_gt_1" ->
            [ret |-> IF p.x <= 1 THEN "true" ELSE "false",
             val |-> p, same |-> FALSE, after |-> p]
      [] ax.handler = "clamp_x" ->
            IF p.x > 2
            THEN [ret |-> "dict", val |-> [p EXCEPT !.x = 2], same |-> TRUE,
                  after |-> [p EXCEPT !.x = 2]]
            ELSE [ret |-> "true", val |-> p, same |-> FALSE, after |-> p]
      [] OTHER ->
            [ret |-> "none", val |-> p, same |-> FALSE, after |-> p]

IndexOfName(reg, n) ==
    IF \E i \in 1..Len(reg) : reg[i].name = n
    THEN CHOOSE i \in 1..Len(reg) : reg[i].name = n
    ELSE 0

\* ExecutiveRegistry.register: self._axioms[func.__name__] = axiom.  The dict
\* keeps the position of a key that is already present.
register(reg, ax) ==
    IF IndexOfName(reg, ax.name) = 0
    THEN Append(reg, ax)
    ELSE [reg EXCEPT ![IndexOfName(reg, ax.name)] = ax]

\* sanitized_payload = payload.copy(): the working mapping is a new object.
\* val is the working mapping, caller the mapping the caller passed (as it is
\* now), alias whether the working mapping is the caller's object.
CopyPayloadAliased(payload) ==
    [val |-> payload, caller |-> payload, alias |-> TRUE, ran |-> <<>>, seen |-> <<>>]

CopyPayload(payload) ==
    [val |-> payload, caller |-> payload, alias |-> FALSE, ran |-> <<>>, seen |-> <<>>]

\* One iteration of the loop of validate_output on axiom ax in working state w.
AxiomStep(ax, w) ==
    LET r == Axiom_execute(ax, w.val)
        ran1 == Append(w.ran, ax.name)
        seen1 == Append(w.seen, w.val)
        caller1 == IF w.alias THEN r.after ELSE w.caller
    IN  CASE r.ret = "true" ->
               [status |-> "continue", by |-> "",
                w |-> [val |-> r.after, caller |-> caller1, alias |-> w.alias,
                       ran |-> ran1, seen |-> seen1]]
          [] r.ret = "dict" ->
               [status |-> "continue", by |-> "",
                w |-> [val |-> r.val, caller |-> caller1,
                       alias |-> IF r.same THEN w.alias ELSE FALSE,
                       ran |-> ran1, seen |-> seen1]]
          [] r.ret = "false" ->
               [status |-> "blocked", by |-> ax.name,
                w |-> [val |-> r.after, caller |-> caller1, alias |-> w.alias,
                       ran |-> ran1, seen |-> seen1]]
          [] OTHER ->
               [status |-> "continue", by |-> "",
                w |-> [val |-> r.after, caller |-> caller1, alias |-> w.alias,
                       ran |-> ran1, seen |-> seen1]]

RECURSIVE RunAxioms(_, _, _)
RunAxioms(reg, i, w) ==
    IF i > Len(reg)
    THEN [status |-> "ok", by |-> "", args |-> w.val, caller |-> w.caller,
          ran |-> w.ran, seen |-> w.seen]
    ELSE LET s == AxiomStep(reg[i], w)
         IN  IF s.status = "blocked"
             THEN [status |-> "blocked", by |-> s.by, args |-> s.w.val,
                   caller |-> s.w.caller, ran |-> s.w.ran, seen |-> s.w.seen]
             ELSE RunAxioms(reg, i + 1, s.w)

\* ExecutiveRegistry.validate_output(payload): status "ok" returns args,
\* status "blocked" raises AxiomViolationError naming the axiom `by`.
validate_output(reg, payload) == RunAxioms(reg, 1, CopyPayload(payload))

\* A message that names the decorator instead of the axiom that blocked.
BlockMessage_Generic(name) == [kind |-> "axiom_block", axiom |-> "axiom"]

\* The message of the AxiomViolationError: the axiom's name is its content.
BlockMessage(name) == [kind |-> "axiom_block", axiom |-> name]


(***************************************************************************)
(* Tools.  The native registry of Agent.__init__ holds the four default    *)
(* tools; MacOSTool is registered by callers afterwards.  The external     *)
(* tool bridge (Synapse), when connected, lists McpTools.                  *)
(***************************************************************************)
DefaultNative == {"file_system", "shell_command", "web_browser", "workspace_discovery"}
OptionalNative == {"macos_system"}
McpTools == {"read_file", "shell", "shell_tool"}

\* Tool names a model response may carry ("ghost" is in no catalog,
\* "Shell_Command" differs from a catalog name in letter case only).
ProposedNames ==
    {"workspace_discovery", "shell_command", "Shell_Command", "macos_system",
     "read_file", "shell", "shell_tool", "ghost"}

NameLower(n) == IF n = "Shell_Command" THEN "shell_command" ELSE n

\* ToolRegistry.list_tools / get_all_definitions: the registered names.
list_tools(native) == native

\* Discovery: native definitions, extended by the bridge's tools when the
\* bridge exists, has a session and listing them does not raise.
Discovery(native, syn, listOk) ==
    IF syn = "up" /\ listOk THEN native \cup McpTools ELSE native

(***************************************************************************)
(* The model decision returned by Cortex.plan_action, by its shape:        *)
(*   fn      a tool-call object (it has the attribute `function`)          *)
(*   form    of a text response:                                           *)
(*     "plain"  no brace block and no call-like syntax                     *)
(*     "json"   one brace block that json.loads accepts, with the tool     *)
(*              name under `key` and the arguments under "arguments"       *)
(*     "js"     one brace block json.loads rejects and the repair pass     *)
(*              (quoting bare keys) makes parseable, name under "name"     *)
(*     "bad"    one brace block neither pass can parse                     *)
(*     "call"   call-like syntax name({...}) or name(key="value")          *)
(*   thoughtLen  length of the reasoning text isolated from the response   *)
(*   complete    whether the text contains a completion phrase             *)
(***************************************************************************)
Forms == {"plain", "json", "js", "bad", "call"}
Keys == {"name", "tool", "action"}
ThoughtLens == {0, 3, 9}

\* The arguments the modelled responses carry: harmless, over every axiom's
\* limit, and with a destructive-intent marker.
TurnArgs ==
    {[x |-> 1, command |-> cmdLs], [x |-> MaxX, command |-> cmdRm],
     [x |-> 1, command |-> cmdDelete]}

\* The responses of the model: every form with every name; the strictly
\* parsed form with the name under "name" also with every thought length.
Decisions ==
    [fn : {FALSE}, form : {"plain", "bad"}, key : {"name"}, name : {"ghost"},
     args : {[x |-> 0, command |-> cmdLs]}, thoughtLen : ThoughtLens,
     complete : BOOLEAN, argsValid : {TRUE}]
    \cup
    [fn : {FALSE}, form : {"json"}, key : {"name"}, name : ProposedNames,
     args : TurnArgs, thoughtLen : ThoughtLens, complete : {FALSE}, argsValid : {TRUE}]
    \cup
    [fn : {FALSE}, form : {"json"}, key : {"tool", "action"}, name : ProposedNames,
     args : {[x |-> 1, command |-> cmdLs]}, thoughtLen : {9}, complete : {FALSE},
     argsValid : {TRUE}]
    \cup
    [fn : {FALSE}, form : {"js", "call"}, key : {"name"}, name : ProposedNames,
     args : TurnArgs, thoughtLen : {9}, complete : {FALSE}, argsValid : {TRUE}]
    \cup
    [fn : {TRUE}, form : {"plain"}, key : {"name"}, name : ProposedNames,
     args : TurnArgs, thoughtLen : {0}, complete : {FALSE}, argsValid : BOOLEAN]

NoTool == [name |-> "", args |-> [x |-> 0, command |-> cmdLs]]

\* The validated extraction of one strictly parsed block (key mapping, then
\* "only accept known tools", case-insensitively, normalised to the catalog's
\* spelling).
StrictExtract(d, known) ==
    LET mapped == d.key = "name" \/ d.key = "tool" \/ (d.key = "action" /\ d.name \in known)
        hit == {k \in known : NameLower(k) = NameLower(d.name)}
    IN  IF mapped /\ hit # {}
        THEN [name |-> CHOOSE k \in hit : TRUE, args |-> d.args]
        ELSE NoTool

\* The repair pass: the name is taken from the repaired object as it is.
RepairExtract(d) == [name |-> d.name, args |-> d.args]

\* Pattern recognition of call-like syntax: the name is the word before "(".
PatternExtract(d) == [name |-> d.name, args |-> d.args]

\* The fallback chain of process() on a text response.
ExtractAction(d, known) ==
    CASE d.form = "json" -> StrictExtract(d, known)
      [] d.form = "js" -> RepairExtract(d)
      [] d.form = "call" -> PatternExtract(d)
      [] OTHER -> NoTool


(***************************************************************************)
(* State.                                                                  *)
(***************************************************************************)
VARIABLES
    level,          \* SecurityContext.level, fixed at construction
    tools,          \* ToolRegistry._tools: names of the native tools
    synapse,        \* the external tool bridge: "none", "down" (no session), "up"
    registry,       \* ExecutiveRegistry._axioms, in insertion order
    regLog,         \* the calls of register made so far, in order
    vin,            \* the mapping passed to the last validate_output call
    vres,           \* what that call produced
    memory,         \* the Event Store: appended events, in order
    executed,       \* the calls received by the tool executors, in order
    pc,             \* position of the turn in process()
    caller,         \* who called process(): "direct" or "loop"
    user_input,     \* the argument of process()
    decision,       \* llm_decision of this turn
    known,          \* names of combined_tools of this turn
    proposed,       \* proposed_tool of this turn
    thought,        \* length of the local `thought`; -1 when it is unbound
    safe_args,      \* what validate_output returned in this turn
    result,         \* what process() returned (or "raise" / "none")
    steps,          \* the governance and collaborator calls of this turn, in order
    memStart,       \* Len(memory) when this turn began
    execStart,      \* Len(executed) when this turn began
    turns,          \* number of process() calls so far
    running,        \* AgentLoop.running
    history,        \* AgentLoop.history
    current_input,  \* the local current_input of run()
    step,           \* the loop variable of run()
    max_steps,      \* the argument of run()
    lpc,            \* position of run()
    flagged,        \* the hitl_review result run() is asking the human about
    answer,         \* what the human typed at the last approval prompt
    goal,           \* the argument `goal` of run()
    fin,            \* the arguments of the last call of a function checked on its own
    fout,           \* what that call returned
    rows,           \* the table agent_events of the Event Store, in rowid order
    tasks,          \* the position of every caller task in its call of process()
    writer          \* for every event of `memory`, the task whose turn appended it

cfgVars == <<level, tools, synapse>>
fnVars == <<fin, fout>>
taskVars == <<tasks, writer>>
regVars == <<registry, regLog, vin, vres>>
\* the locals of process()
locals == <<user_input, decision, known, proposed, thought, safe_args, steps>>
turnVars == <<pc, caller, locals, result, memStart, execStart, turns>>
loopVars == <<running, history, current_input, step, max_steps, lpc, flagged, answer, goal>>
vars == <<level, tools, synapse, registry, regLog, vin, vres, memory, executed,
          pc, caller, user_input, decision, known, proposed, thought, safe_args,
          result, steps, memStart, execStart, turns, running, history,
          current_input, step, max_steps, lpc, flagged, answer, goal, fin, fout, rows, tasks, writer>>

NoResult == [type |-> "unset"]
NoArgs == [x |-> 0, command |-> cmdLs]
NoValidation == [status |-> "unset"]
NoInput == [kind |-> "unset"]
\* run() has not been called: there is no goal.
NoGoal == "none"
NoCall == [fn |-> "none"]
NoDecision == [fn |-> FALSE, form |-> "unset"]

\* Events (aeon.memory.events).
AgentStartEvent == [type |-> "agent_start"]
UserMessageEvent(content) == [type |-> "user_message", content |-> content]
ReasoningStepEvent(th, call) == [type |-> "reasoning_step", thought |-> th, tool_call |-> call]
ToolExecutionEvent(n, a) ==
    [type |-> "tool_execution", tool_name |-> n, arguments |-> a, status |-> "started"]
ToolResultEvent(n, out, err) ==
    [type |-> "tool_result", tool_name |-> n, output |-> out, error |-> err]

\* Registries an agent may have been given before its first turn.
PresetRegistries ==
    { <<>>,
      <<[name |-> "f", handler |-> "set_x_2", on_violation |-> "OVERRIDE"],
        [name |-> "g", handler |-> "block_x_gt_1", on_violation |-> "BLOCK"]>>,
      <<[name |-> "g", handler |-> "block_x_gt_1", on_violation |-> "BLOCK"],
        [name |-> "f", handler |-> "clamp_x", on_violation |-> "OVERRIDE"]>>,
      <<[name |-> "f", handler |-> "clamp_x", on_violation |-> "OVERRIDE"]>> }

MaxTasks == 2      \* number of tasks that call process() on one agent

Tasks == 1..MaxTasks
\* A task that has not called process().
NotCalled == [pc |-> "idle"]

InitCommon ==
    /\ regLog = <<>>
    /\ vin = NoArgs
    /\ vres = NoValidation
    /\ memory = <<AgentStartEvent>>
    /\ executed = <<>>
    /\ pc = "idle"
    /\ caller = "direct"
    /\ user_input = NoInput
    /\ decision = NoDecision
    /\ known = {}
    /\ proposed = NoTool
    /\ thought = -1
    /\ safe_args = NoArgs
    /\ result = NoResult
    /\ steps = <<>>
    /\ memStart = 1
    /\ execStart = 0
    /\ turns = 0
    /\ running = FALSE
    /\ history = <<>>
    /\ current_input = NoInput
    /\ goal = NoGoal
    /\ step = 0
    /\ max_steps = 0
    /\ lpc = "idle"
    /\ flagged = NoResult
    /\ answer = ""
    /\ fin = NoCall
    /\ fout = NoCall
    /\ rows = <<>>
    /\ tasks = [t \in Tasks |-> NotCalled]
    /\ writer = <<0>>

\* Agent.__init__, followed by the caller's registrations.
Init ==
    /\ level \in TrustLevels
    /\ tools \in {DefaultNative, DefaultNative \cup OptionalNative}
    /\ synapse \in {"none", "down", "up"}
    /\ registry \in PresetRegistries
    /\ InitCommon

(***************************************************************************)
(* Agent.process, one action per stage.                                    *)
(***************************************************************************)
Return(r) ==
    /\ result' = r
    /\ pc' = "returned"

\* process() has returned to its caller: its locals are gone.
EndTurn ==
    /\ pc' = "idle"
    /\ user_input' = NoInput
    /\ decision' = NoDecision
    /\ known' = {}
    /\ proposed' = NoTool
    /\ thought' = -1
    /\ safe_args' = NoArgs
    /\ steps' = <<>>
    /\ result' = NoResult

\* process() is entered: the user input is recorded.
BeginTurn(input, who, limit) ==
    /\ pc = "idle"
    /\ turns < limit
    /\ turns' = turns + 1
    /\ caller' = who
    /\ user_input' = input
    /\ memory' = Append(memory, UserMessageEvent(input))
    /\ memStart' = Len(memory)
    /\ execStart' = Len(executed)
    /\ UNCHANGED <<decision, known, proposed, thought, safe_args, steps, result>>
    /\ pc' = "discovery"

\* A caller other than the autonomous driver calls process().
DirectCall ==
    /\ lpc = "idle"
    /\ BeginTurn([kind |-> "user"], "direct", MaxCalls)
    /\ UNCHANGED <<cfgVars, fnVars, rows, taskVars, regVars, executed, loopVars>>

\* and receives its result (or its exception).
DirectReturn ==
    /\ pc = "returned"
    /\ caller = "direct"
    /\ EndTurn
    /\ UNCHANGED <<cfgVars, fnVars, rows, taskVars, regVars, memory, executed, caller, memStart, execStart,
                   turns, loopVars>>

\* What became of listing the bridge's tools: there is no bridge, the
\* bridge has no session and answers with no tool, or the call returned or
\* raised.
Listing(syn, listOk) ==
    IF syn = "none" THEN "skipped"
    ELSE IF syn = "down" THEN "empty"
    ELSE IF listOk THEN "listed" ELSE "raised"

\* A Discovery step that lets the listing error out of process().
Discover_Unguarded ==
    /\ pc = "discovery"
    /\ \E listOk \in BOOLEAN :
          /\ steps' = Append(steps, [op |-> "discovery", listing |-> Listing(synapse, listOk)])
          /\ IF Listing(synapse, listOk) = "raised"
             THEN /\ Return([type |-> "raise"])
                  /\ UNCHANGED known
             ELSE /\ known' = Discovery(list_tools(tools), synapse, listOk)
                  /\ pc' = "reasoning"
                  /\ UNCHANGED result
    /\ UNCHANGED <<cfgVars, fnVars, rows, taskVars, regVars, memory, executed, caller, user_input, decision,
                   proposed, thought, safe_args, memStart, execStart, turns,
                   loopVars>>

\* 1. Discovery: an error of the listing is printed and the step goes on
\* with the native definitions.
Discover ==
    /\ pc = "discovery"
    /\ \E listOk \in BOOLEAN :
          /\ known' = Discovery(list_tools(tools), synapse, listOk)
          /\ steps' = Append(steps, [op |-> "discovery", listing |-> Listing(synapse, listOk)])
    /\ pc' = "reasoning"
    /\ UNCHANGED <<cfgVars, fnVars, rows, taskVars, regVars, memory, executed, caller, user_input, decision,
                   proposed, thought, safe_args, result, memStart, execStart, turns,
                   loopVars>>

\* An extraction whose parse errors are not caught: a block that neither
\* pass can parse raises out of process().
Reason_Unguarded(D) ==
    /\ pc = "reasoning"
    /\ \E d \in D :
         /\ decision' = d
         /\ LET act == ExtractAction(d, known)
                withThought == IF d.thoughtLen > 0
                               THEN Append(memory, ReasoningStepEvent("thought", NoTool))
                               ELSE memory
            IN  IF d.fn
                THEN \* `matches` is bound only in the text branch: the loop over
                     \* it raises UnboundLocalError for a tool-call object.
                     /\ Return([type |-> "raise"])
                     /\ steps' = Append(steps, [op |-> "plan_action"])
                     /\ UNCHANGED <<memory, proposed, thought>>
                ELSE IF d.form = "bad"
                THEN /\ Return([type |-> "raise"])
                     /\ steps' = Append(steps, [op |-> "plan_action"])
                     /\ UNCHANGED <<memory, proposed, thought>>
                ELSE IF act = NoTool
                THEN /\ Return([type |-> "text", complete |-> d.complete])
                     /\ steps' = steps \o <<[op |-> "plan_action"], [op |-> "extraction"]>>
                     /\ memory' = withThought
                     /\ thought' = d.thoughtLen
                     /\ UNCHANGED proposed
                ELSE /\ proposed' = act
                     /\ thought' = d.thoughtLen
                     /\ memory' = Append(withThought, ReasoningStepEvent("Tool Call", act))
                     /\ steps' = steps \o <<[op |-> "plan_action"], [op |-> "extraction"]>>
                     /\ pc' = "trust"
                     /\ UNCHANGED result
    /\ UNCHANGED <<cfgVars, fnVars, rows, taskVars, regVars, executed, caller, user_input, known, safe_args,
                   memStart, execStart, turns, loopVars>>

\* 2. Reasoning and extraction, up to the ReasoningStep event of the proposal.
Reason(D) ==
    /\ pc = "reasoning"
    /\ \E d \in D :
         /\ decision' = d
         /\ LET act == ExtractAction(d, known)
                withThought == IF d.thoughtLen > 0
                               THEN Append(memory, ReasoningStepEvent("thought", NoTool))
                               ELSE memory
            IN  IF d.fn
                THEN \* `matches` is bound only in the text branch: the loop over
                     \* it raises UnboundLocalError for a tool-call object.
                     /\ Return([type |-> "raise"])
                     /\ steps' = Append(steps, [op |-> "plan_action"])
                     /\ UNCHANGED <<memory, proposed, thought>>
                ELSE IF act = NoTool
                THEN /\ Return([type |-> "text", complete |-> d.complete])
                     /\ steps' = steps \o <<[op |-> "plan_action"], [op |-> "extraction"]>>
                     /\ memory' = withThought
                     /\ thought' = d.thoughtLen
                     /\ UNCHANGED proposed
                ELSE /\ proposed' = act
                     /\ thought' = d.thoughtLen
                     /\ memory' = Append(withThought, ReasoningStepEvent("Tool Call", act))
                     /\ steps' = steps \o <<[op |-> "plan_action"], [op |-> "extraction"]>>
                     /\ pc' = "trust"
                     /\ UNCHANGED result
    /\ UNCHANGED <<cfgVars, fnVars, rows, taskVars, regVars, executed, caller, user_input, known, safe_args,
                   memStart, execStart, turns, loopVars>>


SecurityMessage(n) == [kind |-> "security", tool |-> n]
ReasoningMessage(n) == [kind |-> "reasoning", tool |-> n]

\* A Trust Gate whose denial is logged and does not end the turn.
TrustCheck_Continue ==
    /\ pc = "trust"
    /\ steps' = Append(steps, [op |-> "can_execute", ok |-> can_execute(level, proposed.name)])
    /\ pc' = "review"
    /\ UNCHANGED <<cfgVars, fnVars, rows, taskVars, regVars, memory, executed, caller, user_input, decision, known,
                   proposed, thought, safe_args, result, memStart, execStart, turns,
                   loopVars>>

\* 3a. Trust Gate.
TrustCheck ==
    /\ pc = "trust"
    /\ steps' = Append(steps, [op |-> "can_execute", ok |-> can_execute(level, proposed.name)])
    /\ IF ~can_execute(level, proposed.name)
       THEN Return([type |-> "error", content |-> SecurityMessage(proposed.name)])
       ELSE pc' = "review" /\ UNCHANGED result
    /\ UNCHANGED <<cfgVars, fnVars, rows, taskVars, regVars, memory, executed, caller, user_input, decision, known,
                   proposed, thought, safe_args, memStart, execStart, turns, loopVars>>

\* A Human-Review Gate that records its verdict and does not suspend the turn.
ReviewCheck_NoSuspend ==
    /\ pc = "review"
    /\ steps' = Append(steps, [op |-> "requires_review",
                               ok |-> ~requires_review(proposed.name, proposed.args)])
    /\ pc' = "quality"
    /\ UNCHANGED <<cfgVars, fnVars, rows, taskVars, regVars, memory, executed, caller, user_input, decision, known,
                   proposed, thought, safe_args, result, memStart, execStart, turns,
                   loopVars>>

\* 3b. Human-Review Gate.
ReviewCheck ==
    /\ pc = "review"
    /\ steps' = Append(steps, [op |-> "requires_review",
                               ok |-> ~requires_review(proposed.name, proposed.args)])
    /\ IF requires_review(proposed.name, proposed.args)
       THEN Return([type |-> "hitl_review", tool_name |-> proposed.name,
                    args |-> proposed.args])
       ELSE pc' = "quality" /\ UNCHANGED result
    /\ UNCHANGED <<cfgVars, fnVars, rows, taskVars, regVars, memory, executed, caller, user_input, decision, known,
                   proposed, thought, safe_args, memStart, execStart, turns, loopVars>>

\* The tool name process() exempts from the reasoning-quality check.
ReasoningExempt(n) == n = "macos_system"

\* thought if 'thought' in locals() else ""
ThoughtArg == IF thought = -1 THEN 0 ELSE thought

\* 3c. Reasoning-quality check.
QualityCheck ==
    /\ pc = "quality"
    /\ IF ReasoningExempt(proposed.name)
       THEN /\ pc' = "axioms"
            /\ UNCHANGED <<result, steps>>
       ELSE /\ steps' = Append(steps, [op |-> "validate_reasoning",
                                       ok |-> validate_reasoning(proposed.name, ThoughtArg)])
            /\ IF ~validate_reasoning(proposed.name, ThoughtArg)
               THEN Return([type |-> "error", content |-> ReasoningMessage(proposed.name)])
               ELSE pc' = "axioms" /\ UNCHANGED result
    /\ UNCHANGED <<cfgVars, fnVars, rows, taskVars, regVars, memory, executed, caller, user_input, decision, known,
                   proposed, thought, safe_args, memStart, execStart, turns, loopVars>>

\* An axiom validation whose returned arguments are dropped: execution would
\* go on with what the model proposed.
AxiomValidation_KeepProposed ==
    /\ pc = "axioms"
    /\ LET v == validate_output(registry, proposed.args)
       IN  /\ steps' = Append(steps, [op |-> "validate_output", ok |-> v.status = "ok"])
           /\ IF v.status = "blocked"
              THEN /\ Return([type |-> "error", content |-> BlockMessage(v.by)])
                   /\ UNCHANGED safe_args
              ELSE /\ safe_args' = proposed.args
                   /\ pc' = "execute"
                   /\ UNCHANGED result
    /\ UNCHANGED <<cfgVars, fnVars, rows, taskVars, regVars, memory, executed, caller, user_input, decision,
                   known, proposed, thought, memStart, execStart, turns, loopVars>>

\* 3d. Axiom validation.
AxiomValidation ==
    /\ pc = "axioms"
    /\ LET v == validate_output(registry, proposed.args)
       IN  /\ steps' = Append(steps, [op |-> "validate_output", ok |-> v.status = "ok"])
           /\ IF v.status = "blocked"
              THEN /\ Return([type |-> "error", content |-> BlockMessage(v.by)])
                   /\ UNCHANGED safe_args
              ELSE /\ safe_args' = v.args
                   /\ pc' = "execute"
                   /\ UNCHANGED result
    /\ UNCHANGED <<cfgVars, fnVars, rows, taskVars, regVars, memory, executed, caller, user_input, decision,
                   known, proposed, thought, memStart, execStart, turns, loopVars>>

\* 4. Execution on the native registry: the ToolExecution event, then the tool.
NativeStart ==
    /\ pc = "execute"
    /\ proposed.name \in list_tools(tools)
    /\ memory' = Append(memory, ToolExecutionEvent(proposed.name, safe_args))
    /\ executed' = Append(executed, [name |-> proposed.name, args |-> safe_args,
                                     via |-> "native"])
    /\ steps' = Append(steps, [op |-> "execute_native"])
    /\ pc' = "native_running"
    /\ UNCHANGED <<cfgVars, fnVars, rows, taskVars, regVars, caller, user_input, decision, known, proposed, thought,
                   safe_args, result, memStart, execStart, turns, loopVars>>

\* What str(e) may be when a tool executor raises.
ErrorTexts == {"boom", "timed out"}

\* A turn that swallows the exception of a native tool without recording it.
NativeFinish_NoErrorEvent ==
    /\ pc = "native_running"
    /\ \/ /\ memory' = Append(memory, ToolResultEvent(proposed.name, "output", "none"))
          /\ Return([type |-> "action_result", content |-> "output"])
          /\ UNCHANGED steps
       \/ \E e \in ErrorTexts :
             /\ steps' = Append(steps, [op |-> "raised", error |-> e])
             /\ Return([type |-> "none"])
             /\ UNCHANGED memory
    /\ UNCHANGED <<cfgVars, fnVars, rows, taskVars, regVars, executed, caller, user_input, decision, known, proposed,
                   thought, safe_args, memStart, execStart, turns, loopVars>>

\* The native tool returns, or raises e: the handler records str(e) and
\* returns None.
NativeFinish ==
    /\ pc = "native_running"
    /\ \/ /\ memory' = Append(memory, ToolResultEvent(proposed.name, "output", "none"))
          /\ Return([type |-> "action_result", content |-> "output"])
          /\ UNCHANGED steps
       \/ \E e \in ErrorTexts :
             /\ steps' = Append(steps, [op |-> "raised", error |-> e])
             /\ memory' = Append(memory, ToolResultEvent(proposed.name, "", e))
             /\ Return([type |-> "none"])
    /\ UNCHANGED <<cfgVars, fnVars, rows, taskVars, regVars, executed, caller, user_input, decision, known, proposed,
                   thought, safe_args, memStart, execStart, turns, loopVars>>

\* Execution on the external tool bridge: no session raises, a call may raise.
SynapseExecute ==
    /\ pc = "execute"
    /\ proposed.name \notin list_tools(tools)
    /\ synapse # "none"
    /\ \/ /\ synapse = "up"
          /\ steps' = Append(steps, [op |-> "execute_synapse"])
          /\ executed' = Append(executed, [name |-> proposed.name,
                                           args |-> safe_args, via |-> "synapse"])
          /\ Return([type |-> "action_result", content |-> "output"])
          /\ UNCHANGED memory
       \/ \E e \in ErrorTexts :
             /\ steps' = steps \o <<[op |-> IF synapse = "up" THEN "execute_synapse"
                                                ELSE "synapse_no_session"],
                                    [op |-> "raised", error |-> e]>>
             /\ executed' = IF synapse = "up"
                            THEN Append(executed, [name |-> proposed.name,
                                                   args |-> safe_args, via |-> "synapse"])
                            ELSE executed
             /\ memory' = Append(memory, ToolResultEvent(proposed.name, "", e))
             /\ Return([type |-> "none"])
    /\ UNCHANGED <<cfgVars, fnVars, rows, taskVars, regVars, caller, user_input, decision, known, proposed, thought,
                   safe_args, memStart, execStart, turns, loopVars>>

\* Neither a native tool nor a bridge: "not found locally or via Synapse".
ToolNotFound ==
    /\ pc = "execute"
    /\ proposed.name \notin list_tools(tools)
    /\ synapse = "none"
    /\ Return([type |-> "none"])
    /\ UNCHANGED <<cfgVars, fnVars, rows, taskVars, regVars, memory, executed, caller, user_input, decision, known,
                   proposed, thought, safe_args, steps, memStart, execStart, turns, loopVars>>


(***************************************************************************)
(* AgentLoop.run, the autonomous driver.                                   *)
(***************************************************************************)
\* The goals a run may be given.
Goals == {"tidy", "report"}

\* The texts run() passes to process(): the parts each f-string is built from.
GoalInput(g) == [kind |-> "goal", goal |-> g]
\* An input that leaves the content of the result out.
ActionInput_NoContent(content, g) == [kind |-> "action", content |-> "", goal |-> g]
ActionInput(content, g) == [kind |-> "action", content |-> content, goal |-> g]
ApprovedInput(n, g) == [kind |-> "approved", tool |-> n, goal |-> g]
RejectedInput(n, g) == [kind |-> "rejected", tool |-> n, goal |-> g]
NotedInput(g) == [kind |-> "noted", goal |-> g]

\* What the human may type at the approval prompt.
Answers == {"y", "yes", "a", "n", "edit"}
Approves(ans) == ans \in {"y", "yes", "a"}

\* run(goal, max_steps) is called.
RunStart ==
    /\ lpc = "idle"
    /\ pc = "idle"
    /\ turns < MaxTurns
    /\ \E k \in 1..MaxSteps : max_steps' = k
    /\ running' = TRUE
    /\ \E g \in Goals :
          /\ goal' = g
          /\ current_input' = GoalInput(g)
    /\ step' = 1
    /\ lpc' = "iter"
    /\ UNCHANGED <<cfgVars, fnVars, rows, taskVars, regVars, memory, executed, turnVars, history, flagged, answer>>

\* The head of the for loop: the next turn is started with current_input.
LoopIter ==
    /\ lpc = "iter"
    /\ step <= max_steps
    /\ running
    /\ BeginTurn(current_input, "loop", MaxTurns)
    /\ lpc' = "await"
    /\ UNCHANGED <<cfgVars, fnVars, rows, taskVars, regVars, executed, running, history, current_input, step,
                   max_steps, flagged, answer, goal>>

\* The loop is left: the range is exhausted, or running was cleared.
LoopExit ==
    /\ lpc = "iter"
    /\ (step > max_steps \/ ~running)
    /\ running' = FALSE
    /\ lpc' = "idle"
    /\ UNCHANGED <<cfgVars, fnVars, rows, taskVars, regVars, memory, executed, turnVars, history, current_input,
                   step, max_steps, flagged, answer, goal>>

\* process() raised: the exception leaves run() as well.
LoopRaise ==
    /\ lpc = "await"
    /\ pc = "returned"
    /\ result.type = "raise"
    /\ EndTurn
    /\ lpc' = "idle"
    /\ UNCHANGED <<cfgVars, fnVars, rows, taskVars, regVars, memory, executed, caller, memStart, execStart,
                   turns, running, history, current_input, step, max_steps, flagged, answer, goal>>

\* `if not result: break`.
LoopNoResult ==
    /\ lpc = "await"
    /\ pc = "returned"
    /\ result.type = "none"
    /\ EndTurn
    /\ running' = FALSE
    /\ lpc' = "idle"
    /\ UNCHANGED <<cfgVars, fnVars, rows, taskVars, regVars, memory, executed, caller, memStart, execStart,
                   turns, history, current_input, step, max_steps, flagged, answer, goal>>

\* A result is appended to the history and decides what happens next.
LoopHandle ==
    /\ lpc = "await"
    /\ pc = "returned"
    /\ result.type \in {"text", "action_result", "error", "hitl_review"}
    /\ EndTurn
    /\ history' = Append(history, [step |-> step, result |-> result])
    /\ IF result.type = "text" /\ result.complete
       THEN /\ running' = FALSE
            /\ lpc' = "idle"
            /\ UNCHANGED <<current_input, flagged>>
       ELSE IF result.type = "action_result"
       THEN /\ current_input' = ActionInput(result.content, goal)
            /\ lpc' = "sleep"
            /\ UNCHANGED <<running, flagged>>
       ELSE IF result.type = "hitl_review"
       THEN /\ flagged' = result
            /\ lpc' = "hitl_wait"
            /\ UNCHANGED <<running, current_input>>
       ELSE /\ current_input' = NotedInput(goal)
            /\ lpc' = "sleep"
            /\ UNCHANGED <<running, flagged>>
    /\ UNCHANGED <<cfgVars, fnVars, rows, taskVars, regVars, memory, executed, caller, memStart, execStart,
                   turns, step, max_steps, answer, goal>>

\* A driver that takes every answer but "n" for an approval.
HitlDecision_AnyButNo ==
    /\ lpc = "hitl_wait"
    /\ \E ans \in Answers :
          /\ answer' = ans
          /\ current_input' = IF ans # "n"
                              THEN ApprovedInput(flagged.tool_name, goal)
                              ELSE RejectedInput(flagged.tool_name, goal)
    /\ lpc' = "sleep"
    /\ UNCHANGED <<cfgVars, fnVars, rows, taskVars, regVars, memory, executed, turnVars, running, history,
                   step, max_steps, flagged, goal>>

\* input() returns the human's answer.
HitlDecision ==
    /\ lpc = "hitl_wait"
    /\ \E ans \in Answers :
          /\ answer' = ans
          /\ current_input' = IF Approves(ans)
                              THEN ApprovedInput(flagged.tool_name, goal)
                              ELSE RejectedInput(flagged.tool_name, goal)
    /\ lpc' = "sleep"
    /\ UNCHANGED <<cfgVars, fnVars, rows, taskVars, regVars, memory, executed, turnVars, running, history,
                   step, max_steps, flagged, goal>>

\* asyncio.sleep(0.5) ends: next value of the loop variable.
LoopSleep ==
    /\ lpc = "sleep"
    /\ step' = step + 1
    /\ lpc' = "iter"
    /\ UNCHANGED <<cfgVars, fnVars, rows, taskVars, regVars, memory, executed, turnVars, running, history,
                   current_input, max_steps, flagged, answer, goal>>

\* AgentLoop.stop(), called by another task while run() is suspended.
Stop ==
    /\ lpc \in {"await", "sleep"}
    /\ running
    /\ running' = FALSE
    /\ UNCHANGED <<cfgVars, fnVars, rows, taskVars, regVars, memory, executed, turnVars, history,
                   current_input, step, max_steps, lpc, flagged, answer, goal>>

\* One turn of process(), called directly, for every configuration.
Next ==
    \/ DirectCall
    \/ DirectReturn
    \/ Discover
    \/ Reason(Decisions)
    \/ TrustCheck
    \/ ReviewCheck
    \/ QualityCheck
    \/ AxiomValidation
    \/ NativeStart
    \/ NativeFinish
    \/ SynapseExecute
    \/ ToolNotFound

Spec == Init /\ [][Next]_vars

(***************************************************************************)
(* The autonomous driver on one agent: default native tools, no external   *)
(* bridge, an override axiom before a blocking one.  The model responses   *)
(* are those that produce each kind of turn outcome.                       *)
(***************************************************************************)
LoopDecisions ==
    [fn : {FALSE}, form : {"plain"}, key : {"name"}, name : {"ghost"},
     args : {[x |-> 0, command |-> cmdLs]}, thoughtLen : {9},
     complete : BOOLEAN, argsValid : {TRUE}]
    \cup
    [fn : {FALSE}, form : {"json"}, key : {"name"},
     name : {"workspace_discovery", "shell_command"},
     args : TurnArgs, thoughtLen : {9}, complete : {FALSE}, argsValid : {TRUE}]
    \cup
    [fn : {TRUE}, form : {"plain"}, key : {"name"}, name : {"workspace_discovery"},
     args : {[x |-> 1, command |-> cmdLs]}, thoughtLen : {0}, complete : {FALSE},
     argsValid : {TRUE}]

InitLoop ==
    /\ level \in {"standard", "full"}
    /\ tools = DefaultNative
    /\ synapse = "none"
    /\ registry = <<[name |-> "g", handler |-> "block_x_gt_1", on_violation |-> "BLOCK"],
                    [name |-> "f", handler |-> "clamp_x", on_violation |-> "OVERRIDE"]>>
    /\ InitCommon

NextLoop ==
    \/ RunStart
    \/ LoopIter
    \/ LoopExit
    \/ LoopRaise
    \/ LoopNoResult
    \/ LoopHandle
    \/ HitlDecision
    \/ LoopSleep
    \/ Stop
    \/ Discover
    \/ Reason(LoopDecisions)
    \/ TrustCheck
    \/ ReviewCheck
    \/ QualityCheck
    \/ AxiomValidation
    \/ NativeStart
    \/ NativeFinish

SpecLoop == InitLoop /\ [][NextLoop]_vars

(***************************************************************************)
(* The axiom registry on its own: registrations, then validations of       *)
(* every argument mapping.                                                 *)
(***************************************************************************)
InitReg ==
    /\ level = "full"
    /\ tools = DefaultNative
    /\ synapse = "none"
    /\ registry = <<>>
    /\ InitCommon

\* @agent.axiom(on_violation=...) / ExecutiveRegistry.register(...)(func)
Register ==
    /\ Len(regLog) < MaxRegs
    /\ \E ax \in AxiomRecs :
          /\ registry' = register(registry, ax)
          /\ regLog' = Append(regLog, ax)
    /\ vin' = NoArgs
    /\ vres' = NoValidation
    /\ UNCHANGED <<cfgVars, fnVars, rows, taskVars, memory, executed, turnVars, loopVars>>

\* ExecutiveRegistry.validate_output(payload)
Validate ==
    /\ \E payload \in Args :
          /\ vin' = payload
          /\ vres' = validate_output(registry, payload)
    /\ UNCHANGED <<cfgVars, fnVars, rows, taskVars, registry, regLog, memory, executed, turnVars, loopVars>>

NextReg ==
    \/ Register
    \/ Validate

SpecReg == InitReg /\ [][NextReg]_vars


(***************************************************************************)
(* HITLAxiom.requires_review on its own: every configuration of the        *)
(* critical set, tool names in and out of it, and argument mappings of one *)
(* entry whose key or value may carry a destructive-intent marker.         *)
(***************************************************************************)
keyPath == <<"p", "a", "t", "h">>
keyRemoveTmp == <<"r", "e", "m", "o", "v", "e", "_", "t", "m", "p">>
keyMode == <<"m", "o", "d", "e">>
ArgKeys == {keyPath, keyRemoveTmp, keyMode}

valReport == <<"r", "e", "p", "o", "r", "t">>
valRemoveUpper == <<"R", "E", "M", "O", "V", "E">>
valUndeleted == <<"u", "n", "D", "e", "l", "e", "t", "e", "d">>
valDelEte == <<"d", "e", "l", " ", "e", "t", "e">>
ArgValues == {cmdLs, cmdRm, cmdDelete, valReport, valRemoveUpper, valUndeleted, valDelEte}

\* str({key: value}) for a string value.
StrEntry(k, v) == <<"{", "'">> \o k \o <<"'", ":", " ", "'">> \o v \o <<"'", "}">>

\* The critical_tools argument of HITLAxiom(): {} stands for "not given".
CriticalConfigs == {{}, {"deploy"}}
ReviewTools ==
    {"shell_tool", "file_tool", "macos_tool", "workspace_discovery", "read_file", "deploy"}

InitReview ==
    /\ level = "full"
    /\ tools = DefaultNative
    /\ synapse = "none"
    /\ registry = <<>>
    /\ InitCommon

\* HITLAxiom(critical_tools).requires_review(tool_name, {key: value})
ReviewCall ==
    /\ \E cfg \in CriticalConfigs, t \in ReviewTools, k \in ArgKeys, v \in ArgValues :
          /\ fin' = [fn |-> "requires_review", configured |-> cfg, tool_name |-> t,
                     key |-> k, value |-> v]
          /\ fout' = [fn |-> "requires_review",
                      ret |-> ReviewText(HITLAxiom_init(cfg), t, StrEntry(k, v))]
    /\ UNCHANGED <<cfgVars, rows, taskVars, regVars, memory, executed, turnVars, loopVars>>

NextReview == ReviewCall

SpecReview == InitReview /\ [][NextReview]_vars

(***************************************************************************)
(* extract_json_blocks, the brace-balance scanner of process(), on its     *)
(* own: every text of at most MaxText characters over an opening brace, a  *)
(* closing brace and one other character.                                  *)
(***************************************************************************)
Alphabet == {"{", "}", "a"}
Texts == UNION {[1..n -> Alphabet] : n \in 0..MaxText}

\* A stack that is emptied by one closing brace.
Pop_All(stack) == 0

\* stack.pop(): the stack holds opening braces only, so it is its height.
Pop(stack) == stack - 1

\* The loop of extract_json_blocks from character i on: stack is the height
\* of the stack, start the index of the opening brace of the open candidate.
RECURSIVE ScanBlocks(_, _, _, _, _)
ScanBlocks(text, i, stack, start, blocks) ==
    IF i > Len(text) THEN blocks
    ELSE IF text[i] = "{"
         THEN ScanBlocks(text, i + 1, stack + 1, IF stack = 0 THEN i ELSE start, blocks)
    ELSE IF text[i] = "}"
         THEN IF stack > 0
              THEN IF Pop(stack) = 0
                   THEN ScanBlocks(text, i + 1, 0, start,
                                   Append(blocks, [start |-> start, stop |-> i,
                                                   block |-> SubSeq(text, start, i)]))
                   ELSE ScanBlocks(text, i + 1, Pop(stack), start, blocks)
              ELSE ScanBlocks(text, i + 1, stack, start, blocks)
    ELSE ScanBlocks(text, i + 1, stack, start, blocks)

extract_json_blocks(text) == ScanBlocks(text, 1, 0, 0, <<>>)

InitScan ==
    /\ level = "full"
    /\ tools = DefaultNative
    /\ synapse = "none"
    /\ registry = <<>>
    /\ InitCommon

\* matches = extract_json_blocks(extraction_content)
ScanCall ==
    /\ \E t \in Texts :
          /\ fin' = [fn |-> "extract_json_blocks", text |-> t]
          /\ fout' = [fn |-> "extract_json_blocks", blocks |-> extract_json_blocks(t)]
    /\ UNCHANGED <<cfgVars, rows, taskVars, regVars, memory, executed, turnVars, loopVars>>

NextScan == ScanCall

SpecScan == InitScan /\ [][NextScan]_vars

(***************************************************************************)
(* The Event Store on its own: the table agent_events behind `memory`,     *)
(* with the identifier and the timestamp every event carries.  Events are  *)
(* appended by process() and by any other holder of the store; timestamps  *)
(* come from datetime.now() when the event is constructed, the local wall  *)
(* clock, which may repeat a value or step back.                           *)
(***************************************************************************)
MaxEvents == 3     \* largest number of rows in the table
MaxClock == 2      \* number of distinct readings of the wall clock

txtHello == <<"h", "e", "l", "l", "o">>
Null == "NULL"

\* The kind-specific fields of the events appended besides user messages.
StoreBodies ==
    { [type |-> "reasoning_step", thought |-> "Tool Call",
       tool_call |-> [name |-> "shell_command", args |-> NoArgs]],
      ToolExecutionEvent("shell_command", NoArgs),
      ToolResultEvent("shell_command", "output", "none") }

\* BaseEvent.__init__: event_id from uuid4, timestamp from datetime.now.
NewEvent(body, id, now) ==
    [k \in DOMAIN body \cup {"event_id", "timestamp"} |->
        IF k = "event_id" THEN id ELSE IF k = "timestamp" THEN now ELSE body[k]]

\* datetime to its ISO 8601 text and back.
isoformat(t) == <<"iso", t>>
fromisoformat(s) == s[2]

\* event.model_dump(mode='json'): every field, the timestamp as text.
model_dump(event) ==
    [k \in DOMAIN event |-> IF k = "timestamp" THEN isoformat(event.timestamp) ELSE event[k]]

\* BaseEvent(**payload): the three declared fields; pydantic ignores the
\* keyword arguments that are not fields of BaseEvent.
BaseEvent(payload) ==
    [event_id |-> payload.event_id,
     timestamp |-> fromisoformat(payload.timestamp),
     type |-> payload.type]

Min(a, b) == IF a < b THEN a ELSE b

\* EventStore.append: a row is inserted; when the primary key exists the
\* commit raises, the error is printed and the insert is rolled back.
append(rs, event) ==
    LET db_event ==
            [event_id |-> event.event_id,
             timestamp |-> event.timestamp,
             event_type |-> event.type,
             payload |-> model_dump(event),
             agent_name |-> IF "agent_name" \in DOMAIN event THEN event.agent_name ELSE Null,
             tool_name |-> IF "tool_name" \in DOMAIN event THEN event.tool_name ELSE Null,
             content_preview |-> IF "content" \in DOMAIN event
                                 THEN SubSeq(event.content, 1, Min(Len(event.content), 100))
                                 ELSE <<>>]
    IN  IF \E i \in 1..Len(rs) : rs[i].event_id = db_event.event_id
        THEN rs
        ELSE Append(rs, db_event)

\* A query that returns the rows as stored.
OrderByRowid(rs) == rs

\* ORDER BY timestamp ASC: rows of equal timestamp stay in rowid order, the
\* order of the index on the column.
OrderByTimestamp(rs) ==
    LET n == Len(rs)
        rank == [i \in 1..n |->
                    Cardinality({j \in 1..n :
                        \/ rs[j].timestamp < rs[i].timestamp
                        \/ rs[j].timestamp = rs[i].timestamp /\ j < i}) + 1]
    IN  [k \in 1..n |-> rs[CHOOSE i \in 1..n : rank[i] = k]]

Reverse(s) == [i \in 1..Len(s) |-> s[Len(s) + 1 - i]]

\* LIMIT n
Limit(s, n) == SubSeq(s, 1, Min(n, Len(s)))

\* The default of the parameter limit of get_history.
DefaultHistoryLimit == 100

\* EventStore.get_history(limit)
get_history(rs, limit) ==
    LET found == Limit(OrderByTimestamp(rs), limit)
    IN  [i \in 1..Len(found) |-> BaseEvent(found[i].payload)]

\* EventStore.get_recent(limit)
get_recent(rs, limit) ==
    LET found == Limit(Reverse(OrderByTimestamp(rs)), limit)
    IN  [i \in 1..Len(found) |-> BaseEvent(Reverse(found)[i].payload)]

\* The event whose append produced a row.
Appended(row) ==
    [k \in DOMAIN row.payload |->
        IF k = "timestamp" THEN fromisoformat(row.payload.timestamp) ELSE row.payload[k]]

InitStore ==
    /\ level = "full"
    /\ tools = DefaultNative
    /\ synapse = "none"
    /\ registry = <<>>
    /\ InitCommon

\* memory.append(event) for an event constructed by the caller.
StoreAppend ==
    /\ Len(rows) < MaxEvents
    /\ \E body \in StoreBodies, now \in 1..MaxClock :
          LET event == NewEvent(body, Len(rows) + 1, now)
          IN  /\ rows' = append(rows, event)
              /\ fin' = [fn |-> "append", event |-> event]
    /\ fout' = [fn |-> "append"]
    /\ UNCHANGED <<cfgVars, taskVars, regVars, memory, executed, turnVars, loopVars>>

\* memory.append(event) for an event that is in the table already.
StoreAppendAgain ==
    /\ \E i \in 1..Len(rows) :
          LET event == Appended(rows[i])
          IN  /\ rows' = append(rows, event)
              /\ fin' = [fn |-> "append", event |-> event]
    /\ fout' = [fn |-> "append"]
    /\ UNCHANGED <<cfgVars, taskVars, regVars, memory, executed, turnVars, loopVars>>

\* The first statement of process(): the user message is recorded.
RecordUserMessage ==
    /\ Len(rows) < MaxEvents
    /\ turns' = turns + 1
    /\ \E now \in 1..MaxClock :
          LET event == NewEvent(UserMessageEvent(txtHello), Len(rows) + 1, now)
          IN  /\ rows' = append(rows, event)
              /\ fin' = [fn |-> "append", event |-> event]
    /\ fout' = [fn |-> "append"]
    /\ UNCHANGED <<cfgVars, taskVars, regVars, memory, executed, pc, caller, locals, result,
                   memStart, execStart, loopVars>>

\* memory.get_history(), memory.get_history(limit)
GetHistory ==
    /\ \E given \in BOOLEAN :
          LET limit == IF given THEN 2 ELSE DefaultHistoryLimit
          IN  /\ fin' = [fn |-> "get_history", given |-> given, limit |-> limit]
              /\ fout' = [fn |-> "get_history", events |-> get_history(rows, limit)]
    /\ UNCHANGED <<cfgVars, rows, taskVars, regVars, memory, executed, turnVars, loopVars>>

\* memory.get_recent(limit)
GetRecent ==
    /\ \E limit \in {1, 3} :
          /\ fin' = [fn |-> "get_recent", limit |-> limit]
          /\ fout' = [fn |-> "get_recent", events |-> get_recent(rows, limit)]
    /\ UNCHANGED <<cfgVars, rows, taskVars, regVars, memory, executed, turnVars, loopVars>>

NextStore ==
    \/ StoreAppend
    \/ StoreAppendAgain
    \/ RecordUserMessage
    \/ GetHistory
    \/ GetRecent

SpecStore == InitStore /\ [][NextStore]_vars

(***************************************************************************)
(* A long session on one store: turn after turn records its user message,  *)
(* the clock advancing, until the table holds more rows than the default   *)
(* limit of get_history.                                                   *)
(***************************************************************************)
MaxHistory == 101  \* largest number of rows in the table of a long session

RecordNextUserMessage ==
    /\ Len(rows) < MaxHistory
    /\ turns' = turns + 1
    /\ LET event == NewEvent(UserMessageEvent(txtHello), Len(rows) + 1, Len(rows) + 1)
       IN  /\ rows' = append(rows, event)
           /\ fin' = [fn |-> "append", event |-> event]
    /\ fout' = [fn |-> "append"]
    /\ UNCHANGED <<cfgVars, taskVars, regVars, memory, executed, pc, caller, locals, result,
                   memStart, execStart, loopVars>>

NextHistory ==
    \/ RecordNextUserMessage
    \/ GetHistory

SpecHistory == InitStore /\ [][NextHistory]_vars

(***************************************************************************)
(* ReasoningAxiom.validate_reasoning on its own, with the axiom the agent  *)
(* constructs: every tool name the governance layers know, with every      *)
(* thought of at most MaxThought characters.                               *)
(***************************************************************************)
MaxThought == 9    \* longest thought text passed to validate_reasoning

ReasoningTools ==
    high_stakes_tools \cup critical_tools \cup high_risk \cup medium_risk
        \cup DefaultNative \cup OptionalNative

\* agent.reasoning_axiom.validate_reasoning(tool_name, thought)
ReasoningCall ==
    /\ \E t \in ReasoningTools, n \in 0..MaxThought :
          /\ fin' = [fn |-> "validate_reasoning", tool_name |-> t, thoughtLen |-> n]
          /\ fout' = [fn |-> "validate_reasoning", ret |-> validate_reasoning(t, n)]
    /\ UNCHANGED <<cfgVars, rows, taskVars, regVars, memory, executed, turnVars, loopVars>>

NextReasoning == ReasoningCall

SpecReasoning == InitReview /\ [][NextReasoning]_vars

(***************************************************************************)
(* Several tasks of one event loop calling process() on the same agent.    *)
(* A coroutine runs until it awaits something that is not ready: process() *)
(* awaits the bridge's tool list (when there is a bridge) and the tool's   *)
(* execution; plan_action is an ordinary call.  The turns here propose a   *)
(* permitted, unreviewed native tool, or answer with text.                 *)
(***************************************************************************)
TaskDecisions == {"text", "tool"}

\* From the reasoning step to the next await or return, for decision d:
\* the events appended and the position reached.
Segment(d) ==
    IF d = "text"
    THEN [events |-> <<ReasoningStepEvent("thought", NoTool)>>,
          pc |-> "returned", result |-> [type |-> "text", complete |-> FALSE]]
    ELSE [events |-> <<ReasoningStepEvent("Tool Call",
                                          [name |-> "workspace_discovery", args |-> NoArgs]),
                       ToolExecutionEvent("workspace_discovery", NoArgs)>>,
          pc |-> "executing", result |-> NoResult]

Stamp(events, t) == [i \in 1..Len(events) |-> t]

\* Task t calls process(): the user message is recorded; with a bridge the
\* coroutine then awaits the tool list, without one it runs on to the tool.
TaskEnter(t) ==
    /\ tasks[t].pc = "idle"
    /\ turns' = turns + 1
    /\ LET first == <<UserMessageEvent([kind |-> "user", task |-> t])>>
       IN  IF synapse = "up"
           THEN /\ memory' = memory \o first
                /\ writer' = writer \o Stamp(first, t)
                /\ tasks' = [tasks EXCEPT ![t] = [pc |-> "discovering"]]
           ELSE \E d \in TaskDecisions :
                   /\ memory' = memory \o first \o Segment(d).events
                   /\ writer' = writer \o Stamp(first \o Segment(d).events, t)
                   /\ tasks' = [tasks EXCEPT ![t] = [pc |-> Segment(d).pc,
                                                     result |-> Segment(d).result]]
    /\ UNCHANGED <<cfgVars, fnVars, rows, regVars, executed, pc, caller, locals, result,
                   memStart, execStart, loopVars>>

\* The bridge answered: reasoning, governance and the start of the tool.
TaskDiscovered(t) ==
    /\ tasks[t].pc = "discovering"
    /\ \E d \in TaskDecisions :
          /\ memory' = memory \o Segment(d).events
          /\ writer' = writer \o Stamp(Segment(d).events, t)
          /\ tasks' = [tasks EXCEPT ![t] = [pc |-> Segment(d).pc,
                                            result |-> Segment(d).result]]
    /\ UNCHANGED <<cfgVars, fnVars, rows, regVars, executed, turnVars, loopVars>>

\* The tool returned, or raised.
TaskToolDone(t) ==
    /\ tasks[t].pc = "executing"
    /\ \/ /\ memory' = Append(memory, ToolResultEvent("workspace_discovery", "output", "none"))
          /\ tasks' = [tasks EXCEPT ![t] = [pc |-> "returned",
                                            result |-> [type |-> "action_result",
                                                        content |-> "output"]]]
       \/ \E e \in ErrorTexts :
             /\ memory' = Append(memory, ToolResultEvent("workspace_discovery", "", e))
             /\ tasks' = [tasks EXCEPT ![t] = [pc |-> "returned",
                                               result |-> [type |-> "none"]]]
    /\ writer' = Append(writer, t)
    /\ executed' = Append(executed, [name |-> "workspace_discovery", args |-> NoArgs,
                                     via |-> "native"])
    /\ UNCHANGED <<cfgVars, fnVars, rows, regVars, turnVars, loopVars>>

InitTasks ==
    /\ level = "full"
    /\ tools = DefaultNative
    /\ synapse \in {"none", "up"}
    /\ registry = <<>>
    /\ InitCommon

NextTasks ==
    \E t \in Tasks :
        \/ TaskEnter(t)
        \/ TaskDiscovered(t)
        \/ TaskToolDone(t)

SpecTasks == InitTasks /\ [][NextTasks]_vars

(***************************************************************************)
(* The extraction loop of process() over the brace blocks of one response, *)
(* on its own: every sequence of at most MaxBlocks blocks, each strictly   *)
(* parseable ("json"), parseable after the repair of bare keys ("js") or   *)
(* not at all ("bad"), with its tool name under one of the keys.           *)
(***************************************************************************)
MaxBlocks == 3     \* largest number of brace blocks in a response

BlockNames == {"workspace_discovery", "Shell_Command", "ghost"}
BlockArgs == [x |-> 1, command |-> cmdLs]
Blocks == [form : {"json", "js", "bad"}, key : Keys, name : BlockNames, args : {BlockArgs}]
BlockSeqs == UNION {[1..n -> Blocks] : n \in 1..MaxBlocks}

\* The except branch of the loop: the block repaired by quoting its keys.
\* An object with "action" is taken for a macos_system call whose arguments
\* are the whole object; one with "name" proposes that name as it is; any
\* other object proposes nothing.
RepairBlock(b) ==
    IF b.key = "action" THEN [name |-> "macos_system", args |-> b.args]
    ELSE IF b.key = "name" THEN RepairExtract(b)
    ELSE NoTool

\* One iteration of `for match in matches`, given what the iterations over
\* the later blocks would propose: break with a proposal, or go on.
LoopBody(b, rest, knownNames) ==
    IF b.form = "json"
    THEN IF StrictExtract(b, knownNames) # NoTool
         THEN StrictExtract(b, knownNames)
         ELSE rest
    ELSE IF b.form = "js"
    THEN IF RepairBlock(b) # NoTool THEN RepairBlock(b) ELSE rest
    ELSE rest

RECURSIVE ExtractFromBlocks(_, _)
ExtractFromBlocks(blocks, knownNames) ==
    IF blocks = <<>> THEN NoTool
    ELSE LoopBody(Head(blocks), ExtractFromBlocks(Tail(blocks), knownNames), knownNames)

\* proposed_tool after the loop, for a response made of these blocks.
ExtractCall ==
    /\ fout.fn # "extract"
    /\ \E bs \in BlockSeqs :
          /\ fin' = [fn |-> "extract", blocks |-> bs]
          /\ fout' = [fn |-> "extract",
                      proposed |-> ExtractFromBlocks(bs, Discovery(tools, synapse, TRUE))]
    /\ UNCHANGED <<cfgVars, rows, taskVars, regVars, memory, executed, turnVars, loopVars>>

NextExtract == ExtractCall

SpecExtract == InitScan /\ [][NextExtract]_vars

(***************************************************************************)
(* The message history of a turn: the window process() reads from the      *)
(* store, the messages it makes of it, and Cortex.sanitize_messages, which *)
(* plan_action applies before the request is sent.                         *)
(***************************************************************************)
MaxLog == 4        \* largest number of rows in the table of this session
MaxMsgs == 4       \* longest list of messages given to sanitize_messages

Roles == {"user", "assistant"}
None == "None"

\* getattr(event, name, default)
getattr(event, name, default) ==
    IF name \in DOMAIN event THEN event[name] ELSE default

\* The thoughts and outputs that the history leaves out.
LoopThoughts == {"search the web", "what time is it"}
LoopOutputs == {"duckduckgo.com", "timeanddate.com"}

\* The limit of the get_recent call of process().
RecentWindow == 3

\* The for loop over recent_events: at most one message for an event.
HistoryMessage(event) ==
    LET event_type == getattr(event, "type", "")
    IN  IF event_type = "user_message"
        THEN <<[role |-> "user", content |-> <<"", getattr(event, "content", "")>>]>>
        ELSE IF event_type = "reasoning_step"
        THEN LET thoughtText == getattr(event, "thought", "")
             IN  IF thoughtText # "" /\ thoughtText \notin LoopThoughts
                 THEN <<[role |-> "assistant", content |-> <<"think", thoughtText>>]>>
                 ELSE <<>>
        ELSE IF event_type = "tool_result"
        THEN LET output == getattr(event, "output", "")
             IN  IF output \notin LoopOutputs
                 THEN <<[role |-> "user", content |-> <<"Result: ", output>>]>>
                 ELSE <<>>
        ELSE <<>>

RECURSIVE HistoryMessages(_)
HistoryMessages(events) ==
    IF events = <<>> THEN <<>>
    ELSE HistoryMessage(Head(events)) \o HistoryMessages(Tail(events))

\* A sanitizer that keeps the first message of a run of one role.
RECURSIVE SanitizeKeepFirst(_, _, _)
SanitizeKeepFirst(messages, sanitized, last_role) ==
    IF messages = <<>> THEN sanitized
    ELSE LET msg == Head(messages)
         IN  IF msg.role = last_role
             THEN SanitizeKeepFirst(Tail(messages), sanitized, last_role)
             ELSE SanitizeKeepFirst(Tail(messages), Append(sanitized, msg), msg.role)

sanitize_messages_KeepFirst(messages) == SanitizeKeepFirst(messages, <<>>, None)

\* The for loop of sanitize_messages from the given locals on.
RECURSIVE SanitizeFrom(_, _, _)
SanitizeFrom(messages, sanitized, last_role) ==
    IF messages = <<>> THEN sanitized
    ELSE LET msg == Head(messages)
         IN  IF msg.role = last_role
             THEN SanitizeFrom(Tail(messages),
                               IF sanitized # <<>>
                               THEN [sanitized EXCEPT ![Len(sanitized)] = msg]
                               ELSE sanitized,
                               last_role)
             ELSE SanitizeFrom(Tail(messages), Append(sanitized, msg), msg.role)

\* Cortex.sanitize_messages(messages)
sanitize_messages(messages) == SanitizeFrom(messages, <<>>, None)

\* memory.append(event), the clock advancing from one event to the next.
RecordEvent ==
    /\ Len(rows) < MaxLog
    /\ \E body \in StoreBodies \cup {UserMessageEvent(txtHello)} :
          LET event == NewEvent(body, Len(rows) + 1, Len(rows) + 1)
          IN  /\ rows' = append(rows, event)
              /\ fin' = [fn |-> "append", event |-> event]
    /\ fout' = [fn |-> "append"]
    /\ UNCHANGED <<cfgVars, taskVars, regVars, memory, executed, turnVars, loopVars>>

\* process() from get_recent(limit=3) to the messages plan_action sends
\* after the system prompt.
BuildHistory ==
    /\ LET recent_events == get_recent(rows, RecentWindow)
           history_messages == HistoryMessages(recent_events)
       IN  /\ fin' = [fn |-> "history", events |-> recent_events]
           /\ fout' = [fn |-> "history", messages |-> history_messages,
                       sent |-> sanitize_messages(history_messages)]
    /\ UNCHANGED <<cfgVars, rows, taskVars, regVars, memory, executed, turnVars, loopVars>>

\* cortex.plan_action(system_prompt, messages, tools) for any messages: the
\* i-th message has content i.
SanitizeCall ==
    /\ \E n \in 1..MaxMsgs :
          \E roles \in [1..n -> Roles] :
             LET messages == [i \in 1..n |-> [role |-> roles[i], content |-> i]]
             IN  /\ fin' = [fn |-> "sanitize_messages", messages |-> messages]
                 /\ fout' = [fn |-> "sanitize_messages", ret |-> sanitize_messages(messages)]
    /\ UNCHANGED <<cfgVars, rows, taskVars, regVars, memory, executed, turnVars, loopVars>>

NextContext ==
    \/ RecordEvent
    \/ BuildHistory
    \/ SanitizeCall

SpecContext == InitStore /\ [][NextContext]_vars

(***************************************************************************)
(* Agent instances of one working directory.  Agent.__init__ constructs    *)
(* EventStore() with its default path, so every instance, of this process  *)
(* or of an earlier one, opens the table of the file aeon_memory.db.  The  *)
(* event_id (a uuid4) of an event is modelled as the pair of the instance  *)
(* that constructed it and a serial number.                                *)
(***************************************************************************)
Instances == {"first", "second"}

\* The instances constructed so far: each one appended its start event.
Constructed == {rows[i].event_id[1] : i \in 1..Len(rows)}

\* agent = Agent(name, ...): self.memory = EventStore(); the start event is
\* appended.
Construct(a) ==
    /\ a \notin Constructed
    /\ Len(rows) < MaxLog
    /\ LET event == NewEvent([type |-> "agent_start", agent_name |-> a],
                             <<a, Len(rows) + 1>>, Len(rows) + 1)
       IN  /\ rows' = append(rows, event)
           /\ fin' = [fn |-> "append", agent |-> a, event |-> event]
    /\ fout' = [fn |-> "append"]
    /\ UNCHANGED <<cfgVars, taskVars, regVars, memory, executed, turnVars, loopVars>>

\* The first statement of a.process(): the user message is recorded.
InstanceTurn(a) ==
    /\ a \in Constructed
    /\ Len(rows) < MaxLog
    /\ LET event == NewEvent(UserMessageEvent(txtHello), <<a, Len(rows) + 1>>, Len(rows) + 1)
       IN  /\ rows' = append(rows, event)
           /\ fin' = [fn |-> "append", agent |-> a, event |-> event]
    /\ fout' = [fn |-> "append"]
    /\ UNCHANGED <<cfgVars, taskVars, regVars, memory, executed, turnVars, loopVars>>

\* a.memory.get_history()
InstanceHistory(a) ==
    /\ a \in Constructed
    /\ fin' = [fn |-> "get_history", agent |-> a]
    /\ fout' = [fn |-> "get_history", events |-> get_history(rows, DefaultHistoryLimit)]
    /\ UNCHANGED <<cfgVars, rows, taskVars, regVars, memory, executed, turnVars, loopVars>>

\* a.memory.get_recent(limit=3), the window of a.process()
InstanceRecent(a) ==
    /\ a \in Constructed
    /\ fin' = [fn |-> "get_recent", agent |-> a]
    /\ fout' = [fn |-> "get_recent", events |-> get_recent(rows, RecentWindow)]
    /\ UNCHANGED <<cfgVars, rows, taskVars, regVars, memory, executed, turnVars, loopVars>>

NextShared ==
    \E a \in Instances :
        \/ Construct(a)
        \/ InstanceTurn(a)
        \/ InstanceHistory(a)
        \/ InstanceRecent(a)

SpecShared == InitStore /\ [][NextShared]_vars

(***************************************************************************)
(* Properties.                                                             *)
(***************************************************************************)
ResultTypes == {"text", "action_result", "error", "hitl_review"}
ExecOps == {"execute_native", "execute_synapse"}
GovernanceOps == {"requires_review", "validate_reasoning", "validate_output"}

HasOp(o) == \E i \in 1..Len(steps) : steps[i].op = o
CountOp(o) == Cardinality({i \in 1..Len(steps) : steps[i].op = o})

\* The events appended since process() was entered.
TurnEvents == SubSeq(memory, memStart + 1, Len(memory))
TurnHasEvent(t) == \E i \in 1..Len(TurnEvents) : TurnEvents[i].type = t

\* Nothing was handed to a tool executor in this turn.
NothingExecuted ==
    /\ \A i \in 1..Len(steps) : steps[i].op \notin ExecOps
    /\ Len(executed) = execStart

\* C1: every call of process() returns exactly one result whose type is text,
\* action_result, error or hitl_review; it never returns None and never lets
\* an exception escape.
C1_TypedResult == pc = "returned" => result.type \in ResultTypes

\* The three ways process() leaves the contract of C1.
C1_ReturnsNoneOrRaises == pc = "returned" /\ result.type \in {"none", "raise"}

\* C2: every tool execution is preceded in its turn by, in this order, a
\* trust check that allowed the name, a review check that did not flag the
\* call, a reasoning-quality check that passed and an axiom validation that
\* returned arguments, whatever the tool name and source.
PrecededByChecks(i, withQuality) ==
    \E a, b, d \in 1..(i - 1) :
        /\ a < b /\ b < d
        /\ steps[a] = [op |-> "can_execute", ok |-> TRUE]
        /\ steps[b] = [op |-> "requires_review", ok |-> TRUE]
        /\ steps[d] = [op |-> "validate_output", ok |-> TRUE]
        /\ withQuality =>
             \E c \in (b + 1)..(d - 1) : steps[c] = [op |-> "validate_reasoning", ok |-> TRUE]

C2_GovernedExecution ==
    \A i \in 1..Len(steps) : steps[i].op \in ExecOps => PrecededByChecks(i, TRUE)

\* What holds instead: the trust check, the review check and the axiom
\* validation precede every execution, and so does the reasoning-quality
\* check for every tool name but macos_system.
GovernedExceptExempt ==
    \A i \in 1..Len(steps) :
        steps[i].op \in ExecOps => PrecededByChecks(i, proposed.name # "macos_system")

\* C3: when the Trust Gate denies the proposed tool, process() returns an
\* error without having called the review gate, the reasoning-quality check
\* or any axiom; the tool is not executed and no ToolExecution event is
\* appended.
C3_TrustDenialEndsTurn ==
    (proposed # NoTool /\ pc # "trust" /\ ~can_execute(level, proposed.name)) =>
        /\ pc = "returned"
        /\ result = [type |-> "error", content |-> SecurityMessage(proposed.name)]
        /\ \A i \in 1..Len(steps) : steps[i].op \notin GovernanceOps
        /\ NothingExecuted
        /\ ~TurnHasEvent("tool_execution")

C3_Witness ==
    /\ pc = "returned"
    /\ level = "isolated"
    /\ proposed.name = "shell_command"
    /\ result.type = "error"
    /\ HasOp("can_execute")

\* C4: when the Trust Gate allows the call and requires_review is true,
\* process() returns hitl_review with that tool name and those arguments;
\* no axiom is run, no tool is executed and no ToolExecution or ToolResult
\* event is appended.
C4_ReviewSuspendsTurn ==
    (/\ proposed # NoTool
     /\ pc \notin {"trust", "review"}
     /\ can_execute(level, proposed.name)
     /\ requires_review(proposed.name, proposed.args)) =>
        /\ pc = "returned"
        /\ result = [type |-> "hitl_review", tool_name |-> proposed.name,
                     args |-> proposed.args]
        /\ ~HasOp("validate_output")
        /\ NothingExecuted
        /\ ~TurnHasEvent("tool_execution")
        /\ ~TurnHasEvent("tool_result")

C4_Witness ==
    /\ pc = "returned"
    /\ result.type = "hitl_review"
    /\ result.tool_name = "workspace_discovery"
    /\ result.args.command = cmdDelete
    /\ HasOp("requires_review")

\* C5: with the default native tools and the default review configuration
\* at Full trust, the fenced JSON text naming shell_tool with the command
\* "rm -rf ..." makes process() return hitl_review for shell_tool, and no
\* tool is executed.
C5_ShellToolIsReviewed ==
    (/\ pc = "returned"
     /\ level = "full"
     /\ tools = DefaultNative
     /\ synapse = "none"
     /\ decision.form = "json"
     /\ decision.key = "name"
     /\ decision.name = "shell_tool"
     /\ decision.args.command = cmdRm) =>
        /\ result.type = "hitl_review"
        /\ result.tool_name = "shell_tool"
        /\ NothingExecuted

\* C10: when an axiom blocks the proposed action, process() returns an error
\* whose content names the blocking axiom; the tool is not executed, no
\* ToolExecution event is appended, and neither the model nor the axiom
\* chain is invoked a second time in that turn.
C10_AxiomBlockEndsTurn ==
    (/\ proposed # NoTool
     /\ HasOp("validate_output")
     /\ \E i \in 1..Len(registry) :
           /\ registry[i].handler = "block_x_gt_1"
           /\ \/ proposed.args.x > 1
              \/ \E j \in 1..(i - 1) : registry[j].handler = "set_x_2") =>
        /\ pc = "returned"
        /\ result.type = "error"
        /\ result.content.kind = "axiom_block"
        /\ \E i \in 1..Len(registry) :
              /\ registry[i].handler = "block_x_gt_1"
              /\ result.content.axiom = registry[i].name
        /\ NothingExecuted
        /\ ~TurnHasEvent("tool_execution")
        /\ CountOp("plan_action") = 1
        /\ CountOp("validate_output") = 1

C10_Witness ==
    /\ pc = "returned"
    /\ result.type = "error"
    /\ result.content.kind = "axiom_block"
    /\ proposed.args.x = 1
    /\ Len(registry) = 2


\* C6: in a goal run a flagged action follows Proposed -> AwaitingApproval ->
\* (Approved -> Executed | Rejected -> Abandoned): once the human has
\* approved, the flagged tool has been executed with the flagged arguments
\* before the next turn starts; once rejected, it is never executed.
FlaggedCallExecuted ==
    \E i \in 1..Len(executed) :
        executed[i].name = flagged.tool_name /\ executed[i].args = flagged.args

C6_ApprovedIsExecuted ==
    /\ (lpc = "sleep" /\ current_input.kind = "approved") => FlaggedCallExecuted
    /\ (lpc = "sleep" /\ current_input.kind = "rejected") => ~FlaggedCallExecuted

\* The rejected half of C6 alone: a flagged call is never executed.
FlaggedNeverExecuted == flagged.type = "hitl_review" => ~FlaggedCallExecuted

\* C7: a hitl_review result never ends the run by itself: no further turn
\* starts until the human has answered, and the input of the next turn names
\* the flagged tool and says approved when the answer was an approval and
\* rejected otherwise.
DecisionInput(ans, tool) ==
    IF ans \in {"y", "yes", "a"} THEN [kind |-> "approved", tool |-> tool, goal |-> goal]
    ELSE [kind |-> "rejected", tool |-> tool, goal |-> goal]

C7_HitlSuspendsRun ==
    /\ [](lpc = "hitl_wait" => (pc = "idle" /\ flagged.type = "hitl_review"))
    /\ [][lpc = "hitl_wait" =>
            \/ lpc' = "hitl_wait"
            \/ /\ lpc' = "sleep"
               /\ answer' \in Answers
               /\ current_input' = DecisionInput(answer', flagged.tool_name)]_vars
    /\ [][(lpc = "iter" /\ lpc' = "idle") => (step > max_steps \/ ~running)]_vars
    /\ []((/\ lpc = "await"
           /\ step > 1
           /\ history[Len(history)].result.type = "hitl_review") =>
             user_input = DecisionInput(answer, history[Len(history)].result.tool_name))

C7_Witness ==
    /\ lpc = "await"
    /\ step > 1
    /\ history[Len(history)].result.type = "hitl_review"
    /\ user_input.kind = "approved"
    /\ pc = "reasoning"

\* C8: validate_output runs the registered axioms in registration order,
\* each against the arguments as patched by those before it: A (override x
\* to 2) registered before B (block if x > 1) blocks x = 1, and B registered
\* before A passes x = 1 and returns x = 2.
HandlersOf(log) == [i \in 1..Len(log) |-> log[i].handler]

C8_RegistrationOrder ==
    (vres.status # "unset" /\ vin.x = 1) =>
        /\ HandlersOf(regLog) = <<"set_x_2", "block_x_gt_1">> => vres.status = "blocked"
        /\ HandlersOf(regLog) = <<"block_x_gt_1", "set_x_2">> =>
              (vres.status = "ok" /\ vres.args.x = 2)

\* The same, for two handlers whose function names differ.
OrderWithDistinctNames ==
    (/\ vres.status # "unset"
     /\ vin.x = 1
     /\ Len(regLog) = 2
     /\ regLog[1].name # regLog[2].name) =>
        /\ HandlersOf(regLog) = <<"set_x_2", "block_x_gt_1">> => vres.status = "blocked"
        /\ HandlersOf(regLog) = <<"block_x_gt_1", "set_x_2">> =>
              (vres.status = "ok" /\ vres.args.x = 2)

TurnCalls == SubSeq(executed, execStart + 1, Len(executed))

Overridden ==
    /\ proposed # NoTool
    /\ HasOp("validate_output")
    /\ validate_output(registry, proposed.args).status = "ok"
    /\ validate_output(registry, proposed.args).args # proposed.args

C11_OverrideReachesTool ==
    Overridden =>
        LET patched == validate_output(registry, proposed.args).args
        IN  /\ result.type # "error"
            /\ \A i \in 1..Len(TurnCalls) :
                  /\ TurnCalls[i].name = proposed.name
                  /\ TurnCalls[i].args = patched
            /\ \A i \in 1..Len(TurnEvents) :
                  TurnEvents[i].type = "tool_execution" =>
                      /\ TurnEvents[i].tool_name = proposed.name
                      /\ TurnEvents[i].arguments = patched
            /\ (pc = "returned" /\ (proposed.name \in list_tools(tools) \/ synapse = "up"))
                  => Len(TurnCalls) = 1

C11_Witness ==
    /\ Overridden
    /\ pc = "returned"
    /\ result.type = "action_result"
    /\ Len(TurnCalls) = 1
    /\ TurnCalls[1].via = "synapse"
    /\ TurnCalls[1].args.x = 2
    /\ proposed.args.x = MaxX

C11_WitnessNative ==
    /\ Overridden
    /\ TurnHasEvent("tool_execution")
    /\ TurnCalls[1].via = "native"

\* C12: the violation policy an axiom is registered with decides what a
\* violation does: an axiom registered with Limit or Alert never stops
\* processing (validate_output still returns arguments), and only an axiom
\* registered with Block vetoes the action.
C12_PolicyDecides ==
    vres.status = "blocked" =>
        \E i \in 1..Len(registry) :
            /\ registry[i].name = vres.by
            /\ registry[i].on_violation = "BLOCK"

\* What validate_output does instead: a false result vetoes under every policy.
FalseVetoesUnderEveryPolicy ==
    vres.status # "unset" =>
        (vres.status = "blocked" <=>
            \E i \in 1..Len(vres.ran) :
                Axiom_execute(registry[i], vres.seen[i]).ret = "false")

\* C13: can_execute permits exactly the unclassified tools under Isolated,
\* the unclassified and the medium-risk tools under Standard and every tool
\* under Full; so permission under Isolated implies permission under
\* Standard, which implies permission under Full.
ToolNames == ProposedNames \cup DefaultNative \cup high_risk \cup medium_risk

Permitted(lvl, t) ==
    CASE lvl = "isolated" -> t \notin high_risk \cup medium_risk
      [] lvl = "standard" -> t \notin high_risk
      [] lvl = "full" -> TRUE

C13_TrustLattice ==
    /\ \A i \in 1..Len(steps) :
          steps[i].op = "can_execute" => steps[i].ok = Permitted(level, proposed.name)
    /\ \A t \in ToolNames :
          /\ can_execute("isolated", t) => can_execute("standard", t)
          /\ can_execute("standard", t) => can_execute("full", t)
          /\ \A lvl \in TrustLevels : can_execute(lvl, t) = Permitted(lvl, t)

C13_Witness ==
    /\ level = "standard"
    /\ proposed.name = "read_file"
    /\ HasOp("can_execute")
    /\ pc = "review"
    /\ ~can_execute("isolated", proposed.name)

\* C14: requires_review is true for every tool name in the configured
\* critical set whatever the arguments, true for any tool name when an
\* argument value contains "delete" or "remove" in any letter case, and
\* false in every other case.
HasMarker(text) == Contains(Lower(text), sDelete) \/ Contains(Lower(text), sRemove)

C14_ReviewByNameOrValue ==
    fout.fn = "requires_review" =>
        fout.ret = (\/ fin.tool_name \in HITLAxiom_init(fin.configured)
                    \/ HasMarker(fin.value))

\* C14, amended: the marker is looked for in the rendering of the whole
\* argument mapping, so a marker in an argument name counts as well as one
\* in an argument value.
C14_ReviewByNameOrKeyOrValue ==
    fout.fn = "requires_review" =>
        fout.ret = (\/ fin.tool_name \in HITLAxiom_init(fin.configured)
                    \/ HasMarker(fin.key)
                    \/ HasMarker(fin.value))

C14_Witness ==
    /\ fout.fn = "requires_review"
    /\ fin.tool_name = "read_file"
    /\ fin.key = keyRemoveTmp
    /\ fin.value = valReport
    /\ fout.ret = TRUE

C14_WitnessFalse ==
    /\ fout.fn = "requires_review"
    /\ fin.configured = {"deploy"}
    /\ fin.tool_name = "shell_tool"
    /\ fin.value = valDelEte
    /\ fout.ret = FALSE

\* C15: extraction never produces a proposed action for a tool name absent
\* from the turn's catalog: through every strategy of the fallback chain the
\* proposed name is a catalog name, or the text is classified as plain.
C15_ProposedInCatalog ==
    (proposed # NoTool /\ ~decision.fn) => proposed.name \in known

\* The strategy that validates: the strict parse proposes catalog names only.
StrictProposesCatalogNames ==
    (proposed # NoTool /\ ~decision.fn /\ decision.form = "json") =>
        proposed.name \in known

\* C16: execution is attempted, natively or on the bridge, only for a tool
\* name in the catalog computed in the Discovery step of the same turn.
C16_ExecutedInCatalog ==
    pc # "idle" => \A i \in 1..Len(TurnCalls) : TurnCalls[i].name \in known

\* The native registry is only handed names it has registered.
NativeExecutedInCatalog ==
    pc # "idle" =>
        \A i \in 1..Len(TurnCalls) :
            TurnCalls[i].via = "native" => TurnCalls[i].name \in known

\* C17: a structured function call with valid JSON arguments is used
\* directly as the proposed action, with no text-extraction strategy, and
\* the turn proceeds to the Trust Gate with it.
C17_FunctionCallUsedDirectly ==
    (decision.fn /\ decision.argsValid) =>
        /\ proposed = [name |-> decision.name, args |-> decision.args]
        /\ ~HasOp("extraction")
        /\ HasOp("can_execute") \/ pc = "trust"

\* C18: for every free-text response, however malformed, the extraction
\* stage raises no exception: it yields one proposed action, or classifies
\* the response as plain text and process() returns a result of type text.
C18_ExtractionNeverRaises ==
    (~decision.fn /\ HasOp("plan_action")) =>
        /\ HasOp("extraction")
        /\ result.type # "raise"
        /\ proposed = NoTool => (pc = "returned" /\ result.type = "text")
        /\ proposed # NoTool => proposed = ExtractAction(decision, known)

C18_Witness ==
    /\ decision.form = "bad"
    /\ HasOp("extraction")
    /\ pc = "returned"
    /\ result.type = "text"

\* C19: the brace-balance scanner returns, in document order, exactly the
\* top-level brace-balanced blocks of the text: an object with nested objects
\* is returned whole as one candidate, no candidate ends at an inner closing
\* brace and no nested object is returned as a separate candidate.
Opens(t, i, j) == Cardinality({k \in i..j : t[k] = "{"})
Closes(t, i, j) == Cardinality({k \in i..j : t[k] = "}"})

\* t[i..j] is a balanced block: it opens at i and closes for the first time at j.
Balanced(t, i, j) ==
    /\ i < j
    /\ t[i] = "{"
    /\ t[j] = "}"
    /\ Opens(t, i, j) = Closes(t, i, j)
    /\ \A k \in i..(j - 1) : Opens(t, i, k) > Closes(t, i, k)

\* Position i lies inside a block opened before it and still open.
Enclosed(t, i) ==
    \E p \in 1..(i - 1) :
        /\ t[p] = "{"
        /\ \A k \in p..(i - 1) : Opens(t, p, k) > Closes(t, p, k)

TopLevelBlocks(t) ==
    {<<i, j>> \in (1..Len(t)) \X (1..Len(t)) : Balanced(t, i, j) /\ ~Enclosed(t, i)}

C19_TopLevelBlocksOnly ==
    fout.fn = "extract_json_blocks" =>
        LET t == fin.text
            B == fout.blocks
        IN  /\ {<<B[n].start, B[n].stop>> : n \in 1..Len(B)} = TopLevelBlocks(t)
            /\ \A n \in 1..Len(B) : B[n].block = SubSeq(t, B[n].start, B[n].stop)
            /\ \A m, n \in 1..Len(B) : m < n => B[m].stop < B[n].start

C19_Witness ==
    /\ fout.fn = "extract_json_blocks"
    /\ Len(fin.text) = MaxText
    /\ fin.text[2] = "{"
    /\ Len(fout.blocks) = 1
    /\ fout.blocks[1].block = fin.text

C19_WitnessTwoBlocks ==
    /\ fout.fn = "extract_json_blocks"
    /\ Len(fout.blocks) = 2
    /\ fout.blocks[1].stop - fout.blocks[1].start = 3

\* C20: every call run(goal, max_steps=K), the first of an agent or a later
\* one, returns a history of at most K entries, all produced by that run.
C20_HistoryOfThisRun ==
    (lpc = "idle" /\ max_steps > 0) =>
        /\ Len(history) <= max_steps
        /\ \A i \in 1..Len(history) : history[i].step = i

\* What holds instead: the history is never reset, so it holds one entry
\* for every turn of every run of the agent that returned a result.
HistoryAccumulates == Len(history) <= turns

\* The last entry of the history of run().
LastResult == history[Len(history)].result

\* C21: a run given K steps performs fewer than K turns exactly when one of
\* its turns returned a text result carrying a completion phrase, and it
\* stops right after that turn; no other outcome of a turn (an action
\* result, an error, a review result, a text without a phrase, a tool
\* failure) ends the run before K turns.
C21_OnlyCompletionEndsEarly ==
    [][(lpc = "await" /\ lpc' = "idle" /\ step < max_steps) =>
          (result.type = "text" /\ result.complete)]_vars

\* What holds of C21: a completion phrase stops the run at once, and of the
\* four typed results only a completed text does.
CompletionStopsAtOnce ==
    [][(/\ lpc = "await"
        /\ pc = "returned"
        /\ result.type = "text"
        /\ result.complete
        /\ lpc' # lpc) => (lpc' = "idle" /\ ~running')]_vars

TypedResultsContinue ==
    [][(/\ lpc = "await"
        /\ result.type \in ResultTypes
        /\ ~(result.type = "text" /\ result.complete)
        /\ lpc' # lpc) => lpc' \in {"sleep", "hitl_wait"}]_vars

\* C22: after an error result with steps remaining the driver does not
\* carry out the failed action itself, and the input of the next turn
\* contains the content of the error result.
C22_ErrorFoldedIntoNextInput ==
    (lpc = "sleep" /\ Len(history) > 0 /\ LastResult.type = "error") =>
        /\ "content" \in DOMAIN current_input
        /\ current_input.content = LastResult.content

\* What holds of C22: the driver executes nothing after an error, and the
\* next input is the fixed "noted" text with the goal.
ErrorTurnNotRepeated ==
    [][(lpc = "await" /\ result.type = "error" /\ lpc' = "sleep") =>
          (current_input' = NotedInput(goal) /\ executed' = executed)]_vars

\* C23: after an action_result the input of the next turn contains the
\* content of the action result together with the goal text.
C23_ActionResultFoldedIntoNextInput ==
    /\ (lpc = "sleep" /\ Len(history) > 0 /\ LastResult.type = "action_result") =>
          /\ current_input.content = LastResult.content
          /\ current_input.goal = goal
    /\ (lpc = "await" /\ step > 1 /\ LastResult.type = "action_result") =>
          /\ user_input.content = LastResult.content
          /\ user_input.goal = goal

C23_Witness ==
    /\ lpc = "await"
    /\ step > 1
    /\ LastResult.type = "action_result"
    /\ user_input = [kind |-> "action", content |-> "output", goal |-> "report"]

\* A tool executor raised in this turn.
ToolRaised ==
    \E i \in 1..Len(TurnEvents) :
        TurnEvents[i].type = "tool_result" /\ TurnEvents[i].error # "none"

\* C24: when a tool raises during a turn of a goal run, the run does not
\* end: the failure is surfaced as a typed result, and with steps remaining
\* the driver runs a next turn whose input contains the error text.
C24_ToolFailureContinuesRun ==
    /\ [](caller = "loop" /\ pc = "returned" /\ ToolRaised => result.type \in ResultTypes)
    /\ [][(/\ lpc = "await"
           /\ pc = "returned"
           /\ ToolRaised
           /\ step < max_steps
           /\ lpc' # lpc) => lpc' = "sleep"]_vars

\* What holds instead: a tool failure ends the run at that turn.
ToolFailureEndsRun ==
    [][(lpc = "await" /\ pc = "returned" /\ ToolRaised /\ lpc' # lpc) =>
          (lpc' = "idle" /\ ~running' /\ history' = history)]_vars

\* The exceptions raised by a tool executor in this turn.
RaisedErrors == {steps[i].error : i \in {j \in 1..Len(steps) : steps[j].op = "raised"}}

\* C25: when a tool raises during execution, native or through the
\* external bridge, a ToolResult event carrying the tool name and the error
\* text is appended to the Event Store before the turn returns, and the
\* exception does not leave process().
C25_ToolErrorRecorded ==
    (pc = "returned" /\ RaisedErrors # {}) =>
        /\ Len(TurnEvents) > 0
        /\ \E e \in RaisedErrors :
              TurnEvents[Len(TurnEvents)] = ToolResultEvent(proposed.name, "", e)
        /\ result.type # "raise"

C25_Witness ==
    /\ pc = "returned"
    /\ RaisedErrors = {"timed out"}
    /\ HasOp("execute_native")
    /\ memory[Len(memory)].error = "timed out"

C25_WitnessBridge ==
    /\ pc = "returned"
    /\ RaisedErrors = {"boom"}
    /\ HasOp("execute_synapse")
    /\ memory[Len(memory)] = ToolResultEvent(proposed.name, "", "boom")

\* The kinds of the events appended since process() was entered, in order.
TurnEventTypes == [i \in 1..Len(TurnEvents) |-> TurnEvents[i].type]

\* The turn recorded, in this order, the user message, a reasoning step
\* carrying the proposed action, the start of the tool and its result.
FullTrace ==
    \E a, b, c, d \in 1..Len(TurnEvents) :
        /\ a < b /\ b < c /\ c < d
        /\ TurnEvents[a] = UserMessageEvent(user_input)
        /\ TurnEvents[b].type = "reasoning_step"
        /\ TurnEvents[b].tool_call = proposed
        /\ TurnEvents[c].type = "tool_execution"
        /\ TurnEvents[c].tool_name = proposed.name
        /\ TurnEvents[d].type = "tool_result"
        /\ TurnEvents[d].tool_name = proposed.name

\* C26: in every turn that executes a tool, through the native registry or
\* through the external tool bridge, the Event Store receives, in this
\* order and before process() returns, a UserMessage event, a ReasoningStep
\* event carrying the proposed action, a ToolExecution event and a
\* ToolResult event.
C26_ExecutingTurnFullyRecorded ==
    (pc = "returned" /\ \E i \in 1..Len(steps) : steps[i].op \in ExecOps) => FullTrace

\* What holds of C26: the native path records the four events.
NativeTurnFullyRecorded ==
    (pc = "returned" /\ HasOp("execute_native")) =>
        /\ FullTrace
        /\ TurnEvents[Len(TurnEvents) - 1] = ToolExecutionEvent(proposed.name, safe_args)

\* The bridge path records no tool start, and a result only on failure.
BridgeTurnRecord ==
    (pc = "returned" /\ HasOp("execute_synapse")) =>
        /\ \A i \in 1..Len(TurnEvents) : TurnEvents[i].type # "tool_execution"
        /\ result.type = "action_result" =>
              \A i \in 1..Len(TurnEvents) : TurnEvents[i].type # "tool_result"

\* The events that were appended, in the order of their append.
AppendedEvents == [i \in 1..Len(rows) |-> Appended(rows[i])]

IsRead == fout.fn \in {"get_history", "get_recent"}

\* C27: events read back from the Event Store (get_history, get_recent)
\* carry the same kind and the same kind-specific payload (content, thought
\* and tool call, tool name, arguments, output and error) as the events
\* that were appended.
C27_ReadEqualsAppended ==
    IsRead =>
        \A i \in 1..Len(fout.events) :
            \E j \in 1..Len(rows) : fout.events[i] = AppendedEvents[j]

\* What holds of C27: identifier, timestamp and kind survive the round
\* trip; every other field is dropped by BaseEvent(**payload).
ReadKeepsBaseFields ==
    IsRead =>
        \A i \in 1..Len(fout.events) :
            /\ DOMAIN fout.events[i] = {"event_id", "timestamp", "type"}
            /\ \E j \in 1..Len(rows) :
                  /\ fout.events[i].event_id = AppendedEvents[j].event_id
                  /\ fout.events[i].timestamp = AppendedEvents[j].timestamp
                  /\ fout.events[i].type = AppendedEvents[j].type

NonDecreasing(events) ==
    \A i, j \in 1..Len(events) : i < j => events[i].timestamp <= events[j].timestamp

OneEventPerTurn == Len(memory) >= turns + 1

Ids(events) == [i \in 1..Len(events) |-> events[i].event_id]

\* C29: get_history() without arguments returns every event appended so
\* far, for any number of appended events.
C29_FullHistory ==
    (fout.fn = "get_history" /\ ~fin.given) => Ids(fout.events) = Ids(rows)

\* What holds of C29: the first 100 events, by timestamp.
HistoryCappedAtDefault ==
    (fout.fn = "get_history" /\ ~fin.given) =>
        Ids(fout.events) = Ids(SubSeq(rows, 1, Min(Len(rows), DefaultHistoryLimit)))

\* The rows appended last, at most n of them, in the order of their append.
LastAppended(n) == SubSeq(rows, Len(rows) - Min(n, Len(rows)) + 1, Len(rows))

\* C30: get_recent(n) returns the min(n, total) events that were appended
\* last, oldest first, so the context window of process() is the three
\* latest appended events in the order of their append.
C30_RecentIsLastAppended ==
    fout.fn = "get_recent" => Ids(fout.events) = Ids(LastAppended(fin.limit))

\* What holds of C30: the min(n, total) rows of greatest timestamp, in
\* non-decreasing timestamp order; they are the last appended ones when
\* the timestamps never step back from one append to the next.
RecentByTimestamp ==
    fout.fn = "get_recent" =>
        /\ Len(fout.events) = Min(fin.limit, Len(rows))
        /\ NonDecreasing(fout.events)
        /\ \A j \in 1..Len(rows) :
              (\A i \in 1..Len(fout.events) : fout.events[i].event_id # rows[j].event_id) =>
                  \A i \in 1..Len(fout.events) : rows[j].timestamp <= fout.events[i].timestamp
        /\ NonDecreasing(rows) => Ids(fout.events) = Ids(LastAppended(fin.limit))

\* The turn proposed a high-stakes tool with a thought below the threshold.
PoorlyReasoned ==
    /\ proposed # NoTool
    /\ proposed.name \in high_stakes_tools
    /\ ThoughtArg < MinThought

ReasoningViolation ==
    /\ result = [type |-> "error", content |-> ReasoningMessage(proposed.name)]
    /\ \A ax \in FuncNames : result.content # BlockMessage(ax)
    /\ NothingExecuted
    /\ ~HasOp("validate_output")

\* C31: for every tool of the high-stakes set, a proposed call whose
\* reasoning text is empty or shorter than the threshold makes process()
\* return an error with a reasoning-violation message that differs from the
\* axiom-block message; the tool is not executed and no axiom is run.
C31_PoorReasoningIsAnError ==
    (pc = "returned" /\ PoorlyReasoned) => ReasoningViolation

\* C31 as it holds: the same, for a call that the Trust Gate permits and
\* the Human-Review Gate does not flag; a flagged call returns hitl_review
\* before its reasoning is looked at.
C31_PoorReasoningAfterReview ==
    /\ (/\ pc = "returned"
        /\ PoorlyReasoned
        /\ can_execute(level, proposed.name)
        /\ ~requires_review(proposed.name, proposed.args)) => ReasoningViolation
    /\ (/\ pc = "returned"
        /\ PoorlyReasoned
        /\ can_execute(level, proposed.name)
        /\ requires_review(proposed.name, proposed.args)) =>
            (result.type = "hitl_review" /\ NothingExecuted /\ ~HasOp("validate_output"))

C31_Witness ==
    /\ pc = "returned"
    /\ proposed.name = "shell"
    /\ thought = 3
    /\ result = [type |-> "error", content |-> ReasoningMessage("shell")]
    /\ registry # <<>>

C31_WitnessReviewFirst ==
    /\ pc = "returned"
    /\ PoorlyReasoned
    /\ result.type = "hitl_review"

\* C32: with the agent's default ReasoningAxiom,
\* validate_reasoning("macos_system", "") returns False: a macos_system
\* call that comes with an empty thought is blocked.
C32_MacosEmptyThoughtRejected ==
    (/\ fout.fn = "validate_reasoning"
     /\ fin.tool_name = "macos_system"
     /\ fin.thoughtLen = 0) => fout.ret = FALSE

\* What holds of C32: the axiom rejects exactly the short thoughts of its
\* two default high-stakes tools, and macos_system is not one of them.
RejectsDefaultHighStakesOnly ==
    fout.fn = "validate_reasoning" =>
        (fout.ret = FALSE <=>
            (fin.tool_name \in {"shell", "file_tool"} /\ fin.thoughtLen < MinThought))

\* In a turn, a macos_system call with an empty thought is not blocked for
\* its reasoning: the check is skipped for that tool.
MacosEmptyThoughtBlocked ==
    (pc = "returned" /\ proposed # NoTool /\ proposed.name = "macos_system" /\ ThoughtArg = 0) =>
        (result.type = "error" /\ NothingExecuted)

\* The tasks whose turn is in progress.
InProgress == {t \in Tasks : tasks[t].pc \in {"discovering", "executing"}}

\* The events of a turn are next to each other in the store.
Contiguous ==
    \A i, j, k \in 2..Len(writer) :
        (i < j /\ j < k /\ writer[i] = writer[k]) => writer[j] = writer[i]

\* C33: for one agent no two process() turns are in progress at the same
\* time: a turn runs to completion, across its suspension points, before
\* the next one starts, so the events of one turn are never interleaved in
\* the Event Store with those of another turn.
C33_OneTurnAtATime ==
    /\ Cardinality(InProgress) <= 1
    /\ Contiguous

\* What holds of C33: the statements between two awaits run undisturbed,
\* so the events a turn appends between two suspension points are adjacent
\* and every event has one writer.
SegmentsAreAtomic ==
    /\ Len(writer) = Len(memory)
    /\ \A i \in 2..Len(memory) :
          memory[i].type = "tool_execution" =>
              (writer[i - 1] = writer[i] /\ memory[i - 1].type = "reasoning_step")

\* The catalog of the agent whose extraction loop is examined.
Catalog == Discovery(tools, synapse, TRUE)

\* Block b parses and its resolved name is in the catalog.
Resolves(b) == b.form = "json" /\ StrictExtract(b, Catalog) # NoTool

\* C34: when the model text contains several JSON blocks, the proposed
\* action is taken from the first block in document order whose resolved
\* name is in the catalog; an earlier block that names an unknown tool or
\* that does not parse is never chosen instead of it.
C34_FirstCatalogBlockWins ==
    fout.fn = "extract" =>
        \A i \in 1..Len(fin.blocks) :
            (Resolves(fin.blocks[i]) /\ \A j \in 1..(i - 1) : ~Resolves(fin.blocks[j])) =>
                fout.proposed = StrictExtract(fin.blocks[i], Catalog)

\* What holds of C34: an earlier block that parses and names an unknown
\* tool, or that no pass can parse, is skipped; an earlier block that only
\* the repair pass can parse wins when it carries "name" or "action".
Skipped(b) ==
    \/ b.form = "bad"
    \/ b.form = "json" /\ ~Resolves(b)
    \/ b.form = "js" /\ b.key = "tool"

FirstAcceptedBlockWins ==
    fout.fn = "extract" =>
        \A i \in 1..Len(fin.blocks) :
            (~Skipped(fin.blocks[i]) /\ \A j \in 1..(i - 1) : Skipped(fin.blocks[j])) =>
                fout.proposed = IF fin.blocks[i].form = "json"
                                THEN StrictExtract(fin.blocks[i], Catalog)
                                ELSE RepairBlock(fin.blocks[i])

\* No two adjacent messages have the same role.
Alternates(ms) == \A i \in 1..(Len(ms) - 1) : ms[i].role # ms[i + 1].role

\* The last message of every run of one role, in the order of the list.
KeepLastOfRuns(ms) ==
    LET last == {i \in 1..Len(ms) : i = Len(ms) \/ ms[i + 1].role # ms[i].role}
    IN  [k \in 1..Cardinality(last) |->
            ms[CHOOSE i \in last : Cardinality({j \in last : j <= i}) = k]]

\* C35: the message history sent to the model in a turn is built from at
\* most the 3 most recent events and no two adjacent messages of it have
\* the same role; sanitize_messages keeps, of every run of consecutive
\* messages of one role, only the last one, in the order of the list.
C35_HistoryBoundedAndAlternating ==
    /\ fout.fn = "history" =>
          /\ Len(fin.events) <= 3
          /\ Len(fout.messages) <= 3
          /\ Alternates(fout.sent)
          /\ fout.sent = KeepLastOfRuns(fout.messages)
    /\ fout.fn = "sanitize_messages" =>
          /\ Alternates(fout.ret)
          /\ fout.ret = KeepLastOfRuns(fin.messages)

\* A turn on a store of more than three events whose window makes three
\* messages, of which a run of one role is reduced.
C35_Witness ==
    /\ fout.fn = "history"
    /\ Len(rows) > 3
    /\ Len(fout.messages) = 3
    /\ Len(fout.sent) < 3

\* A list in which a run of two follows another role and is reduced to its
\* last message.
C35_WitnessRun ==
    /\ fout.fn = "sanitize_messages"
    /\ Len(fin.messages) = 4
    /\ Len(fout.ret) = 3
    /\ fout.ret[2].content = 3

\* Listing the bridge's tools raised in the Discovery step of this turn.
ListingRaised ==
    /\ steps # <<>>
    /\ steps[1].op = "discovery"
    /\ steps[1].listing = "raised"

\* C36: when the bridge fails while listing its tools in the Discovery
\* step, the turn is not aborted and returns no error for that reason: it
\* continues to the Reasoning step with a catalog of exactly the native
\* tools.
C36_ListingFailureKeepsNativeCatalog ==
    ListingRaised =>
        /\ known = list_tools(tools)
        /\ IF Len(steps) = 1
           THEN pc = "reasoning" /\ result = NoResult
           ELSE steps[2].op = "plan_action"

\* A turn whose listing raised and that went on to execute a native tool.
C36_Witness ==
    /\ ListingRaised
    /\ pc = "returned"
    /\ result.type = "action_result"
    /\ proposed.name \in list_tools(tools)

\* What the i-th axiom that ran in the last validate_output returned.
ReturnedBy(i) == Axiom_execute(registry[i], vres.seen[i]).ret

\* C37: validate_output lets arguments through only when every registered
\* axiom returned True or a mapping; a result that is neither True, False
\* nor a mapping, such as None, is never treated as a pass.
C37_OnlyExplicitPassLetsThrough ==
    vres.status = "ok" =>
        \A i \in 1..Len(registry) : ReturnedBy(i) \in {"true", "dict"}

\* What holds of C37: arguments get through exactly when no axiom that ran
\* returned False.
OnlyFalseBlocks ==
    vres.status # "unset" =>
        (vres.status = "ok") = (\A i \in 1..Len(vres.seen) : ReturnedBy(i) # "false")

\* C38: every axiom registered is run by each later validate_output, at
\* the position given by the order of registration, also when two
\* handlers have the same function name: a registration never removes or
\* replaces an axiom registered before it.
C38_RegistrationNeverReplaces ==
    /\ registry = regLog
    /\ vres.status = "ok" =>
          /\ Len(vres.ran) = Len(regLog)
          /\ \A i \in 1..Len(regLog) : vres.ran[i] = regLog[i].name

\* What holds of C38: the axioms run are the last registered of every
\* function name, at the position of the first registration of that name.
LastOfEachNameRuns ==
    /\ \A i \in 1..Len(registry) :
          \E k \in 1..Len(regLog) :
             /\ regLog[k] = registry[i]
             /\ \A m \in (k + 1)..Len(regLog) : regLog[m].name # registry[i].name
    /\ \A k \in 1..Len(regLog) : IndexOfName(registry, regLog[k].name) # 0
    /\ vres.status = "ok" => Len(vres.ran) = Len(registry)

\* The last operation read events from the store of an instance.
ReadByInstance == fout.fn \in {"get_history", "get_recent"} /\ "agent" \in DOMAIN fin

\* C39: the events an agent reads from its Event Store, with get_history
\* and in the get_recent window of process(), are only events appended by
\* that agent instance during its own session: events of another instance
\* or of an earlier session never appear in them.
C39_ReadsOnlyOwnEvents ==
    ReadByInstance =>
        \A i \in 1..Len(fout.events) : fout.events[i].event_id[1] = fin.agent

\* What holds of C39: the events read are events of the shared table,
\* whoever appended them.
ReadsEventsOfTheFile ==
    ReadByInstance =>
        \A i \in 1..Len(fout.events) :
            \E k \in 1..Len(rows) : rows[k].event_id = fout.events[i].event_id

\* The turn of a default agent at Full trust has returned after a call to
\* a natively registered high-risk tool was proposed.
HighRiskNativeProposed ==
    /\ level = "full"
    /\ tools = DefaultNative
    /\ registry = <<>>
    /\ pc = "returned"
    /\ proposed # NoTool
    /\ proposed.name \in high_risk \cap list_tools(tools)

\* C40: with the default configuration at Full trust, a proposed call to
\* any natively registered tool the Trust Gate classifies as high-risk
\* (shell_command, file_system, web_browser) makes process() return
\* hitl_review instead of executing the tool, whatever its arguments are.
C40_HighRiskNativeIsReviewed ==
    HighRiskNativeProposed =>
        /\ result.type = "hitl_review"
        /\ Len(executed) = execStart

\* What holds of C40: such a call is reviewed exactly when the text of its
\* arguments has a destructive-intent marker.
HighRiskReviewedOnMarker ==
    (HighRiskNativeProposed /\ result.type # "raise") =>
        (result.type = "hitl_review") = requires_review(proposed.name, proposed.args)

=============================================================================
